---- MODULE Spec2Model ----
(***************************************************************************)
(* Ball-by-ball replay engine of cricket_rnn.framework: RealMatch.run ->   *)
(* RealInning.run -> RealOver.run -> RealBall.__init__ / RealBall.run.     *)
(*                                                                         *)
(* A match is the record `mat`; `pc` is the position of RealMatch.run.     *)
(* Accumulators (RealBatter, RealBowler, RealFielder) are records kept in  *)
(* the inning's lists and looked up by name (Person.__eq__).  A reference  *)
(* held by a Ball or an Over is either live (it designates the inning's    *)
(* accumulator of that name) or a private copy made by deepcopy.           *)
(***************************************************************************)
EXTENDS Integers, Sequences, FiniteSets, TLC

VARIABLES
    mat,    \* the RealMatch: [innings |-> sequence of innings]
    pc,     \* position of RealMatch.run
    feed,   \* the family the source record of this match belongs to
    err,    \* the exception that ended the replay, "" when none
    dec,    \* what decode_match(encode_match(mat)) returned, once called
    src,    \* the part of the source record replayed so far, item by item
    sib     \* a second RealMatch replayed alongside: [mat, pc, err, src]

vars == <<mat, pc, feed, err, dec, src, sib>>

-----------------------------------------------------------------------------
(* Bounds of the source records that are replayed.                         *)

SquadSize == 3          \* players named per team
DetailBalls == 3        \* deliveries of a "detail" record
MatchInnings == 2       \* innings of a "match" record
MatchBalls == 1         \* deliveries per inning of a "match" record
MaidenBalls == 7        \* deliveries of the over of a "maiden" record
MaidenSpecial == 1      \* deliveries of that over that are not dot balls
MaidenChanges == 1      \* changes of bowler inside that over
SpellOvers == 5         \* overs of a "spell" record
StrikeBalls == 3        \* deliveries of a "strike" record
BoundaryBalls == 3      \* deliveries of a "boundary" record
LookupBalls == 2        \* deliveries of a "lookup" record
PairBalls == 2          \* deliveries of each record of a "pair"
ModesBalls == 2         \* deliveries of a "modes" record
RotateBalls == 3        \* deliveries of a "rotate" record

-----------------------------------------------------------------------------
(* Vocabulary of the source format.                                        *)

BOWLED == "bowled"
LBW == "lbw"
CAUGHT == "caught"
CAUGHT_AND_BOWLED == "caught and bowled"
STUMPED == "stumped"
RUN_OUT == "run out"
RETIRED_HURT == <<"retired hurt", "retired not out">>
HIT_WICKET == "hit wicket"
OBSTRUCTING_THE_FIELD == "obstructing the field"
TIMED_OUT == "timed out"
HANDLED_THE_BALL == "handled the ball"

BOWLING_WICKET_MODES ==
    <<BOWLED, LBW, CAUGHT, CAUGHT_AND_BOWLED, STUMPED, HIT_WICKET>>

\* a kind outside the vocabulary, as a malformed record may carry
UNSEEN_MODE == "hit the ball twice"

Teams == <<"T1", "T2">>

\* mat.players[team]: the playing list of a team, in order
Players(team) ==
    [i \in 1..SquadSize |->
        (IF team = Teams[1] THEN "a" ELSE "z") \o ToString(i)]

\* the substitutes list of the supplementary match record
\* (json_data[JSONKeys.SUBSTITUTE])
Substitutes == <<"s1">>

\* a name that is in neither playing list nor in the substitutes list
Stranger == "x1"

-----------------------------------------------------------------------------
(* Sequence helpers (Python list semantics).                               *)

Range(s) == {s[i] : i \in DOMAIN s}

In(x, s) == \E i \in DOMAIN s : s[i] = x

\* list.index on a list of Persons or names: 0 stands for ValueError
IndexOfName(s, name) ==
    IF \E i \in DOMAIN s : s[i].name = name
    THEN CHOOSE i \in DOMAIN s :
            s[i].name = name /\ \A j \in 1..(i - 1) : s[j].name # name
    ELSE 0

IndexOf(s, x) ==
    IF \E i \in DOMAIN s : s[i] = x
    THEN CHOOSE i \in DOMAIN s : s[i] = x /\ \A j \in 1..(i - 1) : s[j] # x
    ELSE 0

\* faulty variant: the element stays in the list
RemoveNothing(s, x) == s

\* list.remove: drops the first occurrence
Remove(s, x) ==
    LET i == IndexOf(s, x)
    IN  IF i = 0 THEN s ELSE SubSeq(s, 1, i - 1) \o SubSeq(s, i + 1, Len(s))

RECURSIVE SumSeq(_)
SumSeq(s) == IF s = <<>> THEN 0 ELSE s[1] + SumSeq(Tail(s))

Last(s) == s[Len(s)]

\* the value of e, computed once and handed to F (a strict LET)
Let(e, F(_)) == CHOOSE y \in {F(v) : v \in {e}} : TRUE

SetLast(s, x) == [s EXCEPT ![Len(s)] = x]

\* A step that may raise maps an inning to [inn, err]: the inning as the
\* step leaves it and the exception it raised ("" when none).  A step that
\* raises keeps what it had already written; the steps after it do not run.
Ok(inn) == [inn |-> inn, err |-> ""]

Raise(inn, e) == [inn |-> inn, err |-> e]

Then(r, Step(_)) == Let(r, LAMBDA v : IF v.err # "" THEN v ELSE Step(v.inn))

-----------------------------------------------------------------------------
(* Accumulators (roles.py) and the references that Balls and Overs hold.    *)

\* RealBatter(player, position, true_position); position -1 stands for None
NewBatter(name, position, true_position) ==
    [name |-> name, position |-> position, true_position |-> true_position,
     runs |-> 0, balls |-> 0, fours |-> 0, sixes |-> 0,
     dismissal |-> "not out"]

\* RealBowler(player); a spell is <<legal balls (in sixths of an over),
\* maidens, runs, wickets>>
NewBowler(name) ==
    [name |-> name, balls |-> 0, maidens |-> 0, runs |-> 0, wickets |-> 0,
     extras |-> 0, spells |-> <<>>]

NewFielder(name, keeper, substitute) ==
    [name |-> name, keeper |-> keeper, substitute |-> substitute,
     catches |-> 0, stumpings |-> 0, run_outs |-> 0]

\* a reference to the inning's own accumulator of that name
LiveRef(acc) == [live |-> TRUE, name |-> acc.name, val |-> acc]

\* faulty variant: no copy is made, the accumulator itself is kept
KeepAlias(acc) == [live |-> TRUE, name |-> acc.name, val |-> acc]

\* deepcopy: a private object holding the values of the moment
DeepCopy(acc) == [live |-> FALSE, name |-> acc.name, val |-> acc]

\* what reading through a reference yields now
Deref(accs, ref) ==
    IF ref.live THEN accs[IndexOfName(accs, ref.name)] ELSE ref.val

\* Fielder.__str__
FielderStr(f) ==
    IF f.substitute THEN "sub (" \o f.name \o ")"
    ELSE (IF f.keeper THEN "+" ELSE "") \o f.name

\* mat.keepers[team]
Keeper(team) == Players(team)[1]

-----------------------------------------------------------------------------
(* Over (over.py).                                                         *)

\* Over.__abs__: the number of legal balls in the over
OverAbs(ov) ==
    Cardinality({i \in DOMAIN ov.balls : ov.balls[i].bowling_extras = 0})

\* faulty variant: the number of bowlers of the over is not looked at
MaidenAnyBowlers(ov) ==
    IF OverAbs(ov) = 6
    THEN SumSeq([i \in DOMAIN ov.balls |->
                    ov.balls[i].batting_runs - ov.balls[i].bowling_extras]) = 0
    ELSE FALSE

\* Over.maiden
Maiden(ov) ==
    IF OverAbs(ov) = 6 /\ Len(ov.bowlers) = 1
    THEN SumSeq([i \in DOMAIN ov.balls |->
                    ov.balls[i].batting_runs - ov.balls[i].bowling_extras]) = 0
    ELSE FALSE

-----------------------------------------------------------------------------
(* Inning (inning.py): state and lookups.                                  *)

CurOver(inn) == Last(inn.overs)

CurBall(inn) == Last(CurOver(inn).balls)

SetCurOver(inn, ov) == [inn EXCEPT !.overs = SetLast(inn.overs, ov)]

SetCurBall(inn, b) ==
    SetCurOver(inn, [CurOver(inn) EXCEPT !.balls = SetLast(@, b)])

\* Inning.score
ScoreStr(inn) ==
    ToString(inn.score[1]) \o "-" \o ToString(inn.score[2])
        \o (IF inn.declared THEN "d" ELSE "")

\* Over.score
OverScore(ov) == IF ov.balls # <<>> THEN Last(ov.balls).score ELSE ov.start_score

\* RealInning._new_batter
NewBatterIn(inn, name, absent) ==
    LET batter == NewBatter(name, Len(inn.batters),
                            IndexOf(Players(inn.batting_team), name) - 1)
    IN  IF absent
        THEN [inn EXCEPT !.batters =
                Append(@, [batter EXCEPT !.position = -1,
                                         !.dismissal = "absent hurt"])]
        ELSE [inn EXCEPT !.batters = Append(@, batter),
                         !.at_crease = Append(@, name)]

\* faulty variant: a batter who retired hurt is returned as they are
GetBatterNoResume(inn, name, absent) ==
    IF IndexOfName(inn.batters, name) # 0 THEN inn
    ELSE NewBatterIn(inn, name, absent)

\* RealInning.get_batter: the inning after the lookup; the batter is then
\* inn.batters[IndexOfName(inn.batters, name)]
GetBatter(inn, name, absent) ==
    LET i == IndexOfName(inn.batters, name)
    IN  IF i # 0
        THEN IF inn.batters[i].dismissal = "retired hurt"
             THEN [inn EXCEPT !.batters[i].dismissal = "not out",
                              !.at_crease = Append(@, name)]
             ELSE inn
        ELSE NewBatterIn(inn, name, absent)

\* faulty variant: every lookup of a bowler makes a new accumulator
GetBowlerAlwaysNew(inn, name) ==
    [inn EXCEPT !.bowlers = Append(@, NewBowler(name))]

\* RealInning.get_bowler / _new_bowler
GetBowler(inn, name) ==
    IF IndexOfName(inn.bowlers, name) # 0 THEN inn
    ELSE [inn EXCEPT !.bowlers = Append(@, NewBowler(name))]

\* RealInning.get_fielder / _new_fielder, for a name of the playing list or
\* of the substitutes list; a player who is not of the playing list is added
\* to the squad of the fielding team (inn.added: the names this inning had
\* added to mat.squads[fielding_team])
GetFielder(inn, name, substitute) ==
    IF IndexOfName(inn.fielders, name) # 0 THEN inn
    ELSE [inn EXCEPT !.fielders =
            Append(@, NewFielder(name, name = Keeper(inn.fielding_team),
                                 substitute)),
                     !.added = IF IndexOf(Players(inn.fielding_team), name) = 0
                               THEN @ \cup {name} ELSE @]

RECURSIVE GetFielders(_, _)
GetFielders(inn, fs) ==
    IF fs = <<>> THEN inn
    ELSE Let(GetFielder(inn, fs[1].name, fs[1].substitute),
             LAMBDA inn1 : GetFielders(inn1, Tail(fs)))

\* mat.players[team][name] finds the player (List.__getitem__)
Listed(team, name) == IndexOf(Players(team), name) # 0

\* the ValueError of list.index
NotInList(name) == "ValueError: '" \o name \o "' is not in list"

\* RealInning.get_batter, with the exception of mat.players[team][name]
TryGetBatter(inn, name, absent) ==
    IF IndexOfName(inn.batters, name) = 0 /\ ~Listed(inn.batting_team, name)
    THEN Raise(inn, NotInList(name))
    ELSE Ok(GetBatter(inn, name, absent))

\* RealInning.get_bowler, with the exception of mat.players[team][name]
TryGetBowler(inn, name) ==
    IF IndexOfName(inn.bowlers, name) = 0 /\ ~Listed(inn.fielding_team, name)
    THEN Raise(inn, NotInList(name))
    ELSE Ok(GetBowler(inn, name))

\* RealInning.get_fielder, with the exception of
\* get_substitute_fielder_info (next() on an exhausted generator)
TryGetFielder(inn, name, substitute) ==
    IF /\ IndexOfName(inn.fielders, name) = 0
       /\ ~Listed(inn.fielding_team, name)
       /\ ~In(name, Substitutes)
    THEN Raise(inn, "StopIteration")
    ELSE Ok(GetFielder(inn, name, substitute))

\* the list comprehension of RealInning.update_dismissal, line 223
RECURSIVE TryGetFielders(_, _)
TryGetFielders(inn, fs) ==
    IF fs = <<>> THEN Ok(inn)
    ELSE Then(TryGetFielder(inn, fs[1].name, fs[1].substitute),
              LAMBDA inn1 : TryGetFielders(inn1, Tail(fs)))

\* faulty variant: the spell is continued from the over just before
\* (inn[-2]), not from the one before that
OverGetBowlerPrevOver(inn, name) ==
    Let(GetBowler(inn, name), LAMBDA inn1 :
        LET ov == CurOver(inn1)
            k == IndexOfName(inn1.bowlers, name)
            n == Len(inn1.overs)
            newSpell ==
                \/ Len(ov.bowlers) > 0
                \/ n < 2
                \/ name # Last(inn1.overs[n - 1].bowlers).name
        IN  IF IndexOfName(ov.bowlers, name) # 0 THEN inn1
            ELSE Let(IF newSpell
                     THEN [inn1 EXCEPT !.bowlers[k].spells =
                                        Append(@, <<0, 0, 0, 0>>)]
                     ELSE inn1,
                     LAMBDA inn2 :
                        SetCurOver(inn2,
                            [ov EXCEPT !.bowlers =
                                Append(@, LiveRef(inn2.bowlers[k]))])))

\* RealOver.get_bowler: lookup, new spell if applicable, entry in ov.bowlers
OverGetBowler(inn, name) ==
    Let(GetBowler(inn, name), LAMBDA inn1 :
        LET ov == CurOver(inn1)
            k == IndexOfName(inn1.bowlers, name)
            n == Len(inn1.overs)
            newSpell ==
                \/ Len(ov.bowlers) > 0
                \/ n < 3
                \/ name # Last(inn1.overs[n - 2].bowlers).name
        IN  IF IndexOfName(ov.bowlers, name) # 0 THEN inn1
            ELSE Let(IF newSpell
                     THEN [inn1 EXCEPT !.bowlers[k].spells =
                                        Append(@, <<0, 0, 0, 0>>)]
                     ELSE inn1,
                     LAMBDA inn2 :
                        SetCurOver(inn2,
                            [ov EXCEPT !.bowlers =
                                Append(@, LiveRef(inn2.bowlers[k]))])))

\* RealInning.pship_str; "IndexError" when str.format lacks an argument
PshipArgs(inn, wicket) ==
    inn.pship[1] \o inn.pship[2] \o inn.pship[3] \o inn.at_crease
        \o <<IF wicket THEN "" ELSE "*">>

PshipStr(inn, wicket) ==
    LET a == PshipArgs(inn, wicket)
    IN  IF Len(a) < 9 THEN "IndexError"
        ELSE ToString(a[5]) \o a[9] \o " (" \o ToString(a[6]) \o ") ("
                \o a[7] \o " " \o ToString(a[1]) \o " (" \o ToString(a[2])
                \o "), " \o a[8] \o " " \o ToString(a[3]) \o " ("
                \o ToString(a[4]) \o "))"

-----------------------------------------------------------------------------
(* Ball (ball.py).  A delivery record d of the source has the fields       *)
(* batter, non_striker, bowler, runs (off the bat), total, noballs, wides, *)
(* legbyes, byes, penalty (0: the key is absent), non_boundary and wickets *)
(* (a sequence of [kind, player_out, fielders]).                           *)

\* RealWicket.__init__
RealWicket(w, bowler) ==
    [mode |-> w.kind, batter |-> w.player_out, bowler |-> bowler,
     fielders |-> w.fielders]

\* faulty variant: every dismissal that is not a retirement puts 'W' in
\* the place of the run value
BallValueBareW(batting_runs, no_balls, wides, leg_byes, byes, penalty, dismissals) ==
    LET v1 == IF wides # 0 THEN ToString(wides - 1) \o "wd"
              ELSE IF leg_byes # 0 THEN ToString(leg_byes) \o "lb"
              ELSE IF byes # 0 THEN ToString(byes) \o "b"
              ELSE ToString(batting_runs)
        v2 == IF no_balls # 0
              THEN v1 \o (IF leg_byes # 0 \/ byes # 0 THEN "+" ELSE "") \o "nb"
              ELSE v1
        v3 == IF dismissals # <<>> /\ ~In(dismissals[1].mode, RETIRED_HURT)
              THEN "W" ELSE v2
    IN  IF penalty # 0 THEN v3 \o ToString(penalty) \o "p" ELSE v3

\* RealBall._value
BallValue(batting_runs, no_balls, wides, leg_byes, byes, penalty, dismissals) ==
    LET v1 == IF wides # 0 THEN ToString(wides - 1) \o "wd"
              ELSE IF leg_byes # 0 THEN ToString(leg_byes) \o "lb"
              ELSE IF byes # 0 THEN ToString(byes) \o "b"
              ELSE ToString(batting_runs)
        v2 == IF no_balls # 0
              THEN v1 \o (IF leg_byes # 0 \/ byes # 0 THEN "+" ELSE "") \o "nb"
              ELSE v1
        v3 == IF dismissals # <<>> /\ ~In(dismissals[1].mode, RETIRED_HURT)
              THEN IF dismissals[1].mode = RUN_OUT THEN v2 \o "+W"
                   ELSE IF wides # 0 THEN v2 \o "/W"
                   ELSE "W"
              ELSE v2
    IN  IF penalty # 0 THEN v3 \o ToString(penalty) \o "p" ELSE v3

\* faulty variant: mode != RETIRED_HURT compares a kind with the list of
\* faulty variant: every extra is taken off the runs charged to the bowler
PostInitLessExtras(b) ==
    LET bowling_extras == b.no_balls + b.wides
        fielding_extras == b.leg_byes + b.byes + b.penalty
    IN  [bowling_extras |-> bowling_extras,
         fielding_extras |-> fielding_extras,
         extras |-> bowling_extras + fielding_extras,
         bowling_runs |-> b.batting_runs - (bowling_extras + fielding_extras),
         bowling_wickets |->
            Cardinality({i \in DOMAIN b.dismissals :
                            In(b.dismissals[i].mode, BOWLING_WICKET_MODES)}),
         wickets |->
            Cardinality({i \in DOMAIN b.dismissals :
                            ~In(b.dismissals[i].mode, RETIRED_HURT)})]

\* the two retirement kinds, so every dismissal counts as a wicket
PostInitAllWickets(b) ==
    LET bowling_extras == b.no_balls + b.wides
        fielding_extras == b.leg_byes + b.byes + b.penalty
    IN  [bowling_extras |-> bowling_extras,
         fielding_extras |-> fielding_extras,
         extras |-> bowling_extras + fielding_extras,
         bowling_runs |-> b.batting_runs - fielding_extras,
         bowling_wickets |->
            Cardinality({i \in DOMAIN b.dismissals :
                            In(b.dismissals[i].mode, BOWLING_WICKET_MODES)}),
         wickets |-> Len(b.dismissals)]

\* Ball.__post_init__: the fields that depend on other fields
PostInit(b) ==
    LET bowling_extras == b.no_balls + b.wides
        fielding_extras == b.leg_byes + b.byes + b.penalty
    IN  [bowling_extras |-> bowling_extras,
         fielding_extras |-> fielding_extras,
         extras |-> bowling_extras + fielding_extras,
         bowling_runs |-> b.batting_runs - fielding_extras,
         bowling_wickets |->
            Cardinality({i \in DOMAIN b.dismissals :
                            In(b.dismissals[i].mode, BOWLING_WICKET_MODES)}),
         wickets |->
            Cardinality({i \in DOMAIN b.dismissals :
                            ~In(b.dismissals[i].mode, RETIRED_HURT)})]

\* faulty variant: the non_boundary key of the record is not looked at
BoundaryIgnoringFlag(d) == d.total \in {4, 6}

\* RealBall.__init__, line 160: the boundary flag of the Ball
Boundary(d) == (d.total \in {4, 6}) /\ ~d.non_boundary

\* RealBall.__init__ and the append of RealOver.run: the lookups create or
\* reinstate the accumulators, then the Ball joins the over
BallInit(inn, d) ==
    LET abs_index == OverAbs(CurOver(inn))
        index == Len(CurOver(inn).balls)
        no_balls == IF d.noballs # 0 THEN 1 ELSE 0
        dismissals == [i \in DOMAIN d.wickets |-> RealWicket(d.wickets[i], d.bowler)]
        raw(inn3) ==
            [data |-> d,
             index |-> index,
             abs_index |-> abs_index,
             index_str |-> <<CurOver(inn).index, abs_index + 1>>,
             batter |-> LiveRef(inn3.batters[IndexOfName(inn3.batters, d.batter)]),
             non_striker |->
                LiveRef(inn3.batters[IndexOfName(inn3.batters, d.non_striker)]),
             bowler |-> LiveRef(inn3.bowlers[IndexOfName(inn3.bowlers, d.bowler)]),
             value |-> BallValue(d.total, no_balls, d.wides, d.legbyes, d.byes,
                                 d.penalty, dismissals),
             runs |-> d.runs,
             batting_runs |-> d.total,
             boundary |-> Boundary(d),
             no_balls |-> no_balls,
             wides |-> d.wides,
             leg_byes |-> d.legbyes,
             byes |-> d.byes,
             penalty |-> d.penalty,
             dismissals |-> dismissals,
             score |-> "",
             pship |-> ""]
    IN  Let(GetBatter(inn, d.batter, FALSE), LAMBDA inn1 :
        Let(GetBatter(inn1, d.non_striker, FALSE), LAMBDA inn2 :
        Let(OverGetBowler(inn2, d.bowler), LAMBDA inn3 :
        Let(raw(inn3), LAMBDA ball :
            SetCurOver(inn3, [CurOver(inn3) EXCEPT
                                !.balls = Append(@, ball @@ PostInit(ball))])))))

\* RealBall.__init__ as RealOver.run calls it: a lookup that raises leaves
\* the accumulators made by the lookups before it, and no Ball is appended
TryBallInit(inn, d) ==
    Then(TryGetBatter(inn, d.batter, FALSE), LAMBDA inn1 :
    Then(TryGetBatter(inn1, d.non_striker, FALSE), LAMBDA inn2 :
    Then(TryGetBowler(inn2, d.bowler), LAMBDA inn3 :
        Ok(BallInit(inn, d)))))

-----------------------------------------------------------------------------
(* Resolving a delivery (RealBall.run).                                    *)

\* faulty variant: every delivery counts as a ball faced
BatterUpdateEveryBall(inn, b) ==
    LET k == IndexOfName(inn.batters, b.batter.name)
        bat == inn.batters[k]
    IN  Ok([inn EXCEPT !.batters[k] =
            [bat EXCEPT !.runs = @ + b.runs,
                        !.balls = @ + 1,
                        !.fours = @ + (IF b.runs = 4 /\ b.boundary THEN 1 ELSE 0),
                        !.sixes = @ + (IF b.runs = 6 /\ b.boundary THEN 1 ELSE 0)]])

\* RealBatter.update
BatterUpdate(inn, b) ==
    LET k == IndexOfName(inn.batters, b.batter.name)
        bat == inn.batters[k]
    IN  Ok([inn EXCEPT !.batters[k] =
            [bat EXCEPT !.runs = @ + b.runs,
                        !.balls = @ + (IF b.wides = 0 THEN 1 ELSE 0),
                        !.fours = @ + (IF b.runs = 4 /\ b.boundary THEN 1 ELSE 0),
                        !.sixes = @ + (IF b.runs = 6 /\ b.boundary THEN 1 ELSE 0)]])

\* faulty variant: the bowler is credited with every wicket of the delivery
BowlerUpdateAllWickets(inn, b) ==
    LET k == IndexOfName(inn.bowlers, b.bowler.name)
        bowl == inn.bowlers[k]
        b_ == IF b.bowling_extras = 0 THEN 1 ELSE 0
        m_ == IF Maiden(CurOver(inn)) THEN 1 ELSE 0
        sp == bowl.spells
    IN  Ok([inn EXCEPT !.bowlers[k] =
            [bowl EXCEPT !.balls = @ + b_,
                         !.maidens = @ + m_,
                         !.runs = @ + b.bowling_runs,
                         !.wickets = @ + b.wickets,
                         !.extras = @ + b.bowling_extras,
                         !.spells = SetLast(sp,
                            <<Last(sp)[1] + b_, Last(sp)[2] + m_,
                              Last(sp)[3] + b.bowling_runs,
                              Last(sp)[4] + b.wickets>>)]])

\* faulty variant: the figures of the current spell are left as they are
BowlerUpdateTotalsOnly(inn, b) ==
    LET k == IndexOfName(inn.bowlers, b.bowler.name)
        bowl == inn.bowlers[k]
    IN  Ok([inn EXCEPT !.bowlers[k] =
            [bowl EXCEPT !.balls = @ + (IF b.bowling_extras = 0 THEN 1 ELSE 0),
                         !.maidens = @ + (IF Maiden(CurOver(inn)) THEN 1 ELSE 0),
                         !.runs = @ + b.bowling_runs,
                         !.wickets = @ + b.bowling_wickets,
                         !.extras = @ + b.bowling_extras]])

\* RealBowler.update
BowlerUpdate(inn, b) ==
    LET k == IndexOfName(inn.bowlers, b.bowler.name)
        bowl == inn.bowlers[k]
        b_ == IF b.bowling_extras = 0 THEN 1 ELSE 0
        m_ == IF Maiden(CurOver(inn)) THEN 1 ELSE 0
        r_ == b.bowling_runs
        w_ == b.bowling_wickets
        upd == [bowl EXCEPT !.balls = @ + b_,
                            !.maidens = @ + m_,
                            !.runs = @ + r_,
                            !.wickets = @ + w_,
                            !.extras = @ + b.bowling_extras]
        sp == bowl.spells
    IN  IF sp = <<>>
        THEN Raise([inn EXCEPT !.bowlers[k] = upd], "IndexError")
        ELSE Ok([inn EXCEPT !.bowlers[k] =
                [upd EXCEPT !.spells = SetLast(sp,
                    <<Last(sp)[1] + b_, Last(sp)[2] + m_,
                      Last(sp)[3] + r_, Last(sp)[4] + w_>>)]])

\* faulty variant: the score takes the runs off the bat, not the total
UpdateScoreBatRuns(inn, b) ==
    LET striker == IndexOf(inn.at_crease, b.batter.name)
        faced == IF b.wides = 0 THEN 1 ELSE 0
        p1 == [inn.pship EXCEPT ![striker] = <<@[1] + b.runs, @[2] + faced>>]
        p2 == [p1 EXCEPT ![3] = <<@[1] + b.batting_runs, @[2] + faced>>]
    IN  IF striker = 0 THEN Raise(inn, "ValueError")
        ELSE IF striker > 3 THEN Raise(inn, "IndexError")
        ELSE Ok([inn EXCEPT
                    !.pship = p2,
                    !.score = <<@[1] + b.runs, @[2] + b.wickets>>])

\* faulty variant: the combined row takes the runs off the bat
UpdatePshipBatRuns(inn, b) ==
    LET striker == IndexOf(inn.at_crease, b.batter.name)
        faced == IF b.wides = 0 THEN 1 ELSE 0
        p1 == [inn.pship EXCEPT ![striker] = <<@[1] + b.runs, @[2] + faced>>]
        p2 == [p1 EXCEPT ![3] = <<@[1] + b.runs, @[2] + faced>>]
    IN  IF striker = 0 THEN Raise(inn, "ValueError")
        ELSE IF striker > 3 THEN Raise(inn, "IndexError")
        ELSE Ok([inn EXCEPT
                    !.pship = p2,
                    !.score = <<@[1] + b.batting_runs, @[2] + b.wickets>>])

\* RealInning.update_score_and_pship
UpdateScoreAndPship(inn, b) ==
    LET striker == IndexOf(inn.at_crease, b.batter.name)
        faced == IF b.wides = 0 THEN 1 ELSE 0
        p1 == [inn.pship EXCEPT ![striker] = <<@[1] + b.runs, @[2] + faced>>]
        p2 == [p1 EXCEPT ![3] = <<@[1] + b.batting_runs, @[2] + faced>>]
    IN  IF striker = 0 THEN Raise(inn, "ValueError")
        ELSE IF striker > 3 THEN Raise(inn, "IndexError")
        ELSE Ok([inn EXCEPT
                    !.pship = p2,
                    !.score = <<@[1] + b.batting_runs, @[2] + b.wickets>>])

\* RealBall.run, lines 184-185: the Ball records the score and partnership
RecordScore(inn, b) ==
    LET ps == PshipStr(inn, b.wickets # 0)
        b1 == [b EXCEPT !.score = ScoreStr(inn)]
    IN  IF ps = "IndexError" THEN Raise(SetCurBall(inn, b1), "IndexError")
        ELSE Ok(SetCurBall(inn, [b1 EXCEPT !.pship = ps]))

\* RealBatter.set_dismissal: [text, err]
SetDismissal(mode, bowler, fielders) ==
    LET text(t) == [text |-> t, err |-> ""]
        fail(e) == [text |-> "", err |-> e]
    IN  IF mode = BOWLED THEN text("b " \o bowler)
        ELSE IF mode = LBW THEN text("lbw b " \o bowler)
        ELSE IF mode = CAUGHT
             THEN IF fielders = <<>> THEN fail("IndexError")
                  ELSE text("c " \o FielderStr(fielders[1]) \o " b " \o bowler)
        ELSE IF mode = CAUGHT_AND_BOWLED THEN text("c & b " \o bowler)
        ELSE IF mode = STUMPED
             THEN IF fielders = <<>> THEN fail("IndexError")
                  ELSE text("st " \o FielderStr(fielders[1]) \o " b " \o bowler)
        ELSE IF mode = RUN_OUT
             THEN IF fielders = <<>> THEN text("run out")
                  ELSE fail("TypeError")  \* str.join over RealFielder objects
        ELSE IF In(mode, RETIRED_HURT) THEN text("retired hurt")
        ELSE IF mode = HIT_WICKET THEN text("hit wicket b " \o bowler)
        ELSE IF mode = OBSTRUCTING_THE_FIELD THEN text("obstructing the field")
        ELSE IF mode = TIMED_OUT THEN text("timed out")
        ELSE IF mode = HANDLED_THE_BALL THEN text("handled the ball")
        ELSE fail("ValueError")

\* RealFielder.update
FielderUpdate(f, mode) ==
    IF mode \in {CAUGHT, CAUGHT_AND_BOWLED} THEN [f EXCEPT !.catches = @ + 1]
    ELSE IF mode = STUMPED THEN [f EXCEPT !.stumpings = @ + 1]
    ELSE f

\* faulty variant: no dismissal counts as a wicket
IsWicketNever(mode) == FALSE

\* faulty variant: every dismissal, a retirement too, counts as a wicket
IsWicketAlways(mode) == TRUE

\* RealInning.update_dismissal, line 228: wicket := mode not in RETIRED_HURT
IsWicket(mode) == ~In(mode, RETIRED_HURT)

\* the body of the loop of RealInning.update_dismissal, for one dismissal
DismissOne(inn, b, w) ==
    LET named == {w.fielders[i].name : i \in DOMAIN w.fielders}
        wicket == IsWicket(w.mode)
        entry == <<b.score, w.batter, b.index_str>>
    IN  Then(TryGetBatter(inn, w.batter, FALSE), LAMBDA inn1 :
        Then(TryGetFielders(inn1, w.fielders), LAMBDA inn2 :
        Let(SetDismissal(w.mode, b.bowler.name,
                [i \in DOMAIN w.fielders |->
                    inn2.fielders[IndexOfName(inn2.fielders, w.fielders[i].name)]]),
            LAMBDA sd :
        IF sd.err # "" THEN Raise(inn2, sd.err)
        ELSE
        Let([inn2 EXCEPT
                !.batters[IndexOfName(inn2.batters, w.batter)].dismissal = sd.text,
                !.fielders = [i \in DOMAIN inn2.fielders |->
                    IF inn2.fielders[i].name \in named
                    THEN FielderUpdate(inn2.fielders[i], w.mode)
                    ELSE inn2.fielders[i]]],
            LAMBDA inn3 :
        Let(PshipStr(inn3, wicket), LAMBDA ps :
        IF ps = "IndexError" THEN Raise(inn3, "IndexError")
        ELSE
        Let([inn3 EXCEPT !.pships = Append(@, ps)], LAMBDA inn4 :
        IF ~In(w.batter, inn4.at_crease) THEN Raise(inn4, "ValueError")
        ELSE
        Let([inn4 EXCEPT
                !.at_crease = Remove(@, w.batter),
                !.pship = <<<<0, 0>>, <<0, 0>>, <<0, 0>>>>],
            LAMBDA inn5 :
        Ok(IF wicket THEN [inn5 EXCEPT !.fow = Append(@, entry)] ELSE inn5))))))))

\* faulty variant: the partnership matrix is not reset by a dismissal
RECURSIVE UpdateDismissalNoReset(_, _, _)
UpdateDismissalNoReset(inn, b, ws) ==
    IF ws = <<>> THEN Ok(inn)
    ELSE Then(DismissOne(inn, b, ws[1]),
              LAMBDA i : UpdateDismissalNoReset([i EXCEPT !.pship = inn.pship],
                                                b, Tail(ws)))

\* RealInning.update_dismissal
RECURSIVE UpdateDismissal(_, _, _)
UpdateDismissal(inn, b, ws) ==
    IF ws = <<>> THEN Ok(inn)
    ELSE Then(DismissOne(inn, b, ws[1]),
              LAMBDA i : UpdateDismissal(i, b, Tail(ws)))

\* RealBall.run, lines 190-192: the Ball and the over keep copies
Snapshot(inn) ==
    LET b == CurBall(inn)
    IN  Let(DeepCopy(Deref(inn.bowlers, b.bowler)), LAMBDA bowler :
        Let(SetCurBall(inn,
                [b EXCEPT !.batter = DeepCopy(Deref(inn.batters, b.batter)),
                          !.non_striker =
                                DeepCopy(Deref(inn.batters, b.non_striker)),
                          !.bowler = bowler]),
            LAMBDA inn1 :
        Ok(SetCurOver(inn1,
                [CurOver(inn1) EXCEPT !.bowlers = SetLast(@, bowler)]))))

\* faulty variant: the Ball records the score before the inning has taken
\* the delivery in
BallRunScoreFirst(inn) ==
    Let(CurBall(inn), LAMBDA b :
        LET r1 == BatterUpdate(inn, b)
            r2 == Then(r1, LAMBDA i : BowlerUpdate(i, b))
            r3 == Then(r2, LAMBDA i : RecordScore(i, b))
            r4 == Then(r3, LAMBDA i : UpdateScoreAndPship(i, b))
            r5 == Then(r4, LAMBDA i :
                    IF b.dismissals # <<>>
                    THEN UpdateDismissal(i, CurBall(i), b.dismissals)
                    ELSE Ok(i))
        IN  Then(r5, LAMBDA i : Snapshot(i)))

\* RealBall.run
BallRun(inn) ==
    Let(CurBall(inn), LAMBDA b :
        LET r1 == BatterUpdate(inn, b)
            r2 == Then(r1, LAMBDA i : BowlerUpdate(i, b))
            r3 == Then(r2, LAMBDA i : UpdateScoreAndPship(i, b))
            r4 == Then(r3, LAMBDA i : RecordScore(i, b))
            r5 == Then(r4, LAMBDA i :
                    IF b.dismissals # <<>>
                    THEN UpdateDismissal(i, CurBall(i), b.dismissals)
                    ELSE Ok(i))
        IN  Then(r5, LAMBDA i : Snapshot(i)))

\* one turn of the loop of RealOver.run: construct, append, resolve
Deliver(inn, d) == Then(TryBallInit(inn, d), LAMBDA i : BallRun(i))

-----------------------------------------------------------------------------
(* Inning and over construction, and the ends of RealInning.run.           *)

\* Inning.__post_init__: the title
Title(index, batting_team, super_over) ==
    IF super_over THEN batting_team \o " Super Over"
    ELSE batting_team \o " " \o (IF index < 2 THEN "1st" ELSE "2nd") \o " Innings"

\* RealInning._init_fielders
InitFielders(inn) ==
    GetFielders(inn, [i \in 1..SquadSize |->
        [name |-> Players(inn.fielding_team)[i], substitute |-> FALSE]])

\* RealInning.__init__ (with Inning.__post_init__); data is the inning record
\* [team, super_over, declared, absent_hurt, pre, post]
RealInning(data, index) ==
    Let([data |-> data,
         index |-> index,
         batting_team |-> data.team,
         fielding_team |-> Teams[3 - IndexOf(Teams, data.team)],
         super_over |-> data.super_over,
         title |-> Title(index, data.team, data.super_over),
         overs |-> <<>>,
         batters |-> <<>>,
         bowlers |-> <<>>,
         fielders |-> <<>>,
         added |-> {},
         fow |-> <<>>,
         declared |-> FALSE,
         pships |-> <<>>,
         score |-> <<0, 0>>,
         at_crease |-> <<>>,
         pship |-> <<<<0, 0>>, <<0, 0>>, <<0, 0>>>>],
        LAMBDA inn : InitFielders(inn))

\* faulty variant: the penalty runs awarded before the inning are left out
RunPreNone(inn) == inn

\* RealInning.run, lines 201-202: penalty runs awarded before the inning
RunPre(inn) == [inn EXCEPT !.score[1] = @ + inn.data.pre]

\* faulty variant: the new over is put in front of the overs of the inning
RealOverInFront(inn) ==
    [inn EXCEPT !.overs =
        <<[index |-> Len(inn.overs), bowlers |-> <<>>, balls |-> <<>>,
           start_score |-> ScoreStr(inn)]>> \o @]

\* RealOver.__init__ and the append of RealInning.run, line 205
RealOver(inn) ==
    [inn EXCEPT !.overs = Append(@,
        [index |-> Len(inn.overs), bowlers |-> <<>>, balls |-> <<>>,
         start_score |-> ScoreStr(inn)])]

RECURSIVE GetAbsent(_, _)
GetAbsent(inn, names) ==
    IF names = <<>> THEN inn
    ELSE Let(GetBatter(inn, names[1], TRUE),
             LAMBDA inn1 : GetAbsent(inn1, Tail(names)))

\* faulty variant: the declared marker of the record is not taken up
RunPostNoDeclaration(inn) ==
    Let(GetAbsent(inn, inn.data.absent_hurt), LAMBDA inn2 :
        [inn2 EXCEPT !.score[1] = @ + inn.data.post])

\* RealInning.run, lines 208-216: declaration, absent batters, penalty runs
\* awarded after the inning
RunPost(inn) ==
    Let(IF inn.data.declared THEN [inn EXCEPT !.declared = TRUE] ELSE inn,
        LAMBDA inn1 :
    Let(GetAbsent(inn1, inn.data.absent_hurt), LAMBDA inn2 :
        [inn2 EXCEPT !.score[1] = @ + inn.data.post]))

\* faulty variant: the replay works on the first inning of the list
FirstInn(m) == 1

\* the inning RealMatch.run is replaying: the one it appended last
CurInn(m) == Len(m.innings)

Inn(m) == m.innings[CurInn(m)]

SetInn(m, inn) == [m EXCEPT !.innings[CurInn(m)] = inn]

-----------------------------------------------------------------------------
(* Serialisation (serialisation.py).  encode_match writes, for each object, *)
(* the slots of its base class but those of POST_INIT; decode_match calls  *)
(* the base class on them, which runs its __post_init__.  An encoded       *)
(* object holds the objects it refers to by value.                         *)

\* str.replace(c, '')
RECURSIVE Without(_, _)
Without(s, c) ==
    IF Len(s) = 0 THEN ""
    ELSE (IF SubSeq(s, 1, 1) = c THEN "" ELSE SubSeq(s, 1, 1))
            \o Without(SubSeq(s, 2, Len(s)), c)

\* str.split(c)
RECURSIVE Split(_, _)
Split(s, c) ==
    LET at == {i \in 1..Len(s) : SubSeq(s, i, i) = c}
    IN  IF at = {} THEN <<s>>
        ELSE LET p == CHOOSE i \in at : \A j \in at : i <= j
             IN  <<SubSeq(s, 1, p - 1)>> \o Split(SubSeq(s, p + 1, Len(s)), c)

\* int(s) for a string of decimal digits
RECURSIVE ParseInt(_)
ParseInt(s) ==
    IF Len(s) = 0 THEN 0
    ELSE 10 * ParseInt(SubSeq(s, 1, Len(s) - 1))
            + (CHOOSE n \in 0..9 : ToString(n) = SubSeq(s, Len(s), Len(s)))

\* serialise_framework on an ndarray of a spell: round(1); the first entry,
\* kept here in balls, becomes overs in tenths
RoundSpell(sp) == <<(10 * sp[1] + 3) \div 6, sp[2], sp[3], sp[4]>>

EncodeBowler(acc) ==
    [acc EXCEPT !.spells = [j \in DOMAIN acc.spells |-> RoundSpell(acc.spells[j])]]

\* serialise_framework on a RealBall: the slots of Ball but the six of
\* POST_INIT; data is a slot of RealBall only
EncodeBall(inn, b) ==
    [index |-> b.index, abs_index |-> b.abs_index, index_str |-> b.index_str,
     batter |-> Deref(inn.batters, b.batter),
     non_striker |-> Deref(inn.batters, b.non_striker),
     bowler |-> EncodeBowler(Deref(inn.bowlers, b.bowler)),
     value |-> b.value, runs |-> b.runs, batting_runs |-> b.batting_runs,
     boundary |-> b.boundary, no_balls |-> b.no_balls, wides |-> b.wides,
     leg_byes |-> b.leg_byes, byes |-> b.byes, penalty |-> b.penalty,
     dismissals |-> b.dismissals, score |-> b.score, pship |-> b.pship]

EncodeOver(inn, ov) ==
    [index |-> ov.index,
     bowlers |-> [j \in DOMAIN ov.bowlers |->
                    EncodeBowler(Deref(inn.bowlers, ov.bowlers[j]))],
     balls |-> [j \in DOMAIN ov.balls |-> EncodeBall(inn, ov.balls[j])],
     start_score |-> ov.start_score]

\* serialise_framework on a RealInning: the slots of Inning but title and
\* _score; data, _at_crease and _pship are slots of RealInning only
EncodeInning(inn) ==
    [index |-> inn.index, batting_team |-> inn.batting_team,
     fielding_team |-> inn.fielding_team, super_over |-> inn.super_over,
     overs |-> [j \in DOMAIN inn.overs |-> EncodeOver(inn, inn.overs[j])],
     batters |-> inn.batters,
     bowlers |-> [j \in DOMAIN inn.bowlers |-> EncodeBowler(inn.bowlers[j])],
     fielders |-> inn.fielders, fow |-> inn.fow, declared |-> inn.declared,
     pships |-> inn.pships]

\* encode_match
EncodeMatch(m) ==
    [innings |-> [i \in DOMAIN m.innings |-> EncodeInning(m.innings[i])]]

\* Ball(**d) with Ball.__post_init__
DecodeBall(e) == e @@ PostInit(e)

DecodeOver(e) ==
    [e EXCEPT !.balls = [j \in DOMAIN e.balls |-> DecodeBall(e.balls[j])]]

\* Inning.__post_init__, lines 74-77: the score is read off the score
\* string of the last Ball, and is 0-0 when there is none
PostInitScore(overs) ==
    IF overs = <<>> \/ Last(overs).balls = <<>> THEN <<0, 0>>
    ELSE LET parts == Split(Without(Last(Last(overs).balls).score, "d"), "-")
         IN  [j \in DOMAIN parts |-> ParseInt(parts[j])]

\* Inning(**d) with Inning.__post_init__
DecodeInning(e) ==
    Let([j \in DOMAIN e.overs |-> DecodeOver(e.overs[j])], LAMBDA overs :
        [e EXCEPT !.overs = overs]
            @@ [title |-> Title(e.index, e.batting_team, e.super_over),
                score |-> PostInitScore(overs)])

\* decode_match
DecodeMatch(e) ==
    [innings |-> [i \in DOMAIN e.innings |-> DecodeInning(e.innings[i])]]

-----------------------------------------------------------------------------
(* The source records that are replayed.  A record belongs to one of the   *)
(* families below, each bounded above:                                     *)
(*   "detail"  one inning of runs, wides, no-balls and dismissals, two     *)
(*             overs at most;                                              *)
(*   "match"   several innings with penalty runs, declarations and absent  *)
(*             batters;                                                    *)
(*   "maiden"  one long over, bowled by one or two bowlers;                *)
(*   "spell"   many overs of one dot ball, bowled by two bowlers;          *)
(*   "strike"  one over in which either batter may face and a retired      *)
(*             batter may come back;                                       *)
(*   "boundary" one over of fours, sixes, runs all run and extras;         *)
(*   "lookup"  one over whose deliveries may name a substitute fielder or  *)
(*             a player of no list;                                        *)
(*   "pair"    two records of one over, replayed side by side as two       *)
(*             matches;                                                    *)
(*   "modes"   one over of dismissals of every kind, off legal deliveries, *)
(*             wides and no-balls;                                         *)
(*   "rotate"  one over in which two bowlers take turns in any order, with  *)
(*             no-balls of two runs.                                       *)

Feeds ==
    {"detail", "match", "maiden", "spell", "strike", "boundary", "lookup",
     "pair", "modes", "rotate"}

MaxInnings(f) == IF f = "match" THEN MatchInnings ELSE 1

MaxOvers(f) ==
    IF f = "spell" THEN SpellOvers ELSE IF f = "detail" THEN 2 ELSE 1

\* deliveries of one inning
MaxBalls(f) ==
    CASE f = "detail" -> DetailBalls
      [] f = "match" -> MatchBalls
      [] f = "maiden" -> MaidenBalls
      [] f = "spell" -> SpellOvers
      [] f = "strike" -> StrikeBalls
      [] f = "boundary" -> BoundaryBalls
      [] f = "lookup" -> LookupBalls
      [] f = "pair" -> PairBalls
      [] f = "modes" -> ModesBalls
      [] f = "rotate" -> RotateBalls

\* deliveries of one over
MaxOverBalls(f) == IF f = "spell" THEN 1 ELSE MaxBalls(f)

NoWicket == [kind |-> "", who |-> "", fielders |-> 0]

Wkt(kind, who, n) == [kind |-> kind, who |-> who, fielders |-> n]

\* the outcome of a delivery: the runs and extras fields and its dismissal
Out(runs, total, nb, wd, lb, by, pen, nonb, wk) ==
    [runs |-> runs, total |-> total, noballs |-> nb, wides |-> wd,
     legbyes |-> lb, byes |-> by, penalty |-> pen, non_boundary |-> nonb,
     wk |-> wk]

Dot == Out(0, 0, 0, 0, 0, 0, 0, FALSE, NoWicket)
Single == Out(1, 1, 0, 0, 0, 0, 0, FALSE, NoWicket)
Four == Out(4, 4, 0, 0, 0, 0, 0, FALSE, NoWicket)
Wide(n) == Out(0, n, 0, n, 0, 0, 0, FALSE, NoWicket)
NoBall == Out(0, 1, 1, 0, 0, 0, 0, FALSE, NoWicket)
LegBye == Out(0, 1, 0, 0, 1, 0, 0, FALSE, NoWicket)
Penalty == Out(0, 5, 0, 0, 0, 0, 5, FALSE, NoWicket)
Six == Out(6, 6, 0, 0, 0, 0, 0, FALSE, NoWicket)
\* n runs off the bat, all of them run: the record carries non_boundary
AllRun(n) == Out(n, n, 0, 0, 0, 0, 0, TRUE, NoWicket)
LegByes(n) == Out(0, n, 0, 0, n, 0, 0, FALSE, NoWicket)
\* a no-ball that is worth two runs to the batting team
NoBallOfTwo == Out(0, 2, 2, 0, 0, 0, 0, FALSE, NoWicket)
\* n runs off the bat from a no-ball
NoBallOffBat(n) == Out(n, n + 1, 1, 0, 0, 0, 0, FALSE, NoWicket)
Out_(kind, who, n) == Out(0, 0, 0, 0, 0, 0, 0, FALSE, Wkt(kind, who, n))
\* the delivery o with a wicket entry
WicketOff(o, wk) == [o EXCEPT !.wk = wk]

Outcomes(f) ==
    CASE f = "detail" ->
            {Dot, Single, Wide(2), NoBall,
             Out_(BOWLED, "batter", 0), Out_(CAUGHT, "batter", 1),
             Out_(RUN_OUT, "non_striker", 0),
             Out_(RETIRED_HURT[1], "batter", 0),
             Out_(RETIRED_HURT[2], "non_striker", 0),
             Out_(UNSEEN_MODE, "batter", 0)}
      [] f = "match" ->
            {Single, Out_(BOWLED, "batter", 0), Out_(UNSEEN_MODE, "batter", 0)}
      [] f = "maiden" -> {Dot, Single, Wide(1), LegBye}
      [] f = "spell" -> {Dot}
      [] f = "boundary" ->
            {Single, Four, Six, AllRun(4), AllRun(6), LegByes(4), Wide(5),
             NoBallOffBat(4), Penalty}
      [] f = "lookup" -> {Single, Out_(CAUGHT, "batter", 1)}
      [] f = "pair" ->
            {Single, Out_(BOWLED, "batter", 0), Out_(UNSEEN_MODE, "batter", 0)}
      [] f = "modes" ->
            {Single}
            \cup {Out_(k, "batter", 0) :
                    k \in {BOWLED, LBW, CAUGHT_AND_BOWLED, HIT_WICKET, RUN_OUT,
                           OBSTRUCTING_THE_FIELD, TIMED_OUT, HANDLED_THE_BALL,
                           RETIRED_HURT[1]}}
            \cup {Out_(k, "batter", 1) :
                    k \in {CAUGHT, CAUGHT_AND_BOWLED, STUMPED}}
            \cup {Out_(RUN_OUT, "non_striker", 1),
                  WicketOff(Single, Wkt(RUN_OUT, "non_striker", 0)),
                  WicketOff(NoBall, Wkt(RUN_OUT, "batter", 0)),
                  WicketOff(Wide(1), Wkt(RUN_OUT, "non_striker", 0)),
                  WicketOff(Wide(1), Wkt(STUMPED, "batter", 1)),
                  WicketOff(Wide(1), Wkt(RETIRED_HURT[1], "batter", 0))}
      [] f = "rotate" -> {Dot, Single, NoBallOfTwo}
      [] f = "strike" ->
            {Single, Out_(BOWLED, "batter", 0), Out_(RETIRED_HURT[1], "batter", 0)}

\* the inning records: [team, super_over, declared, absent_hurt, pre, post]
InningData(team, so, decl, absent, pre, post) ==
    [team |-> team, super_over |-> so, declared |-> decl,
     absent_hurt |-> absent, pre |-> pre, post |-> post]

InningRecords(f, team) ==
    IF f = "match"
    THEN {InningData(team, FALSE, FALSE, <<>>, 0, 0),
          InningData(team, FALSE, TRUE, <<>>, 5, 0),
          InningData(team, FALSE, FALSE, <<Players(team)[SquadSize]>>, 0, 5)}
    ELSE {InningData(team, FALSE, FALSE, <<>>, 0, 0)}

\* the batters a well-formed delivery names: the pair at the crease, a
\* vacancy filled by the next player of the list who has not batted yet
NextIn(inn) ==
    LET free == {i \in 1..SquadSize :
                    /\ IndexOfName(inn.batters, Players(inn.batting_team)[i]) = 0
                    /\ ~In(Players(inn.batting_team)[i], inn.data.absent_hurt)}
    IN  IF free = {} THEN {}
        ELSE {Players(inn.batting_team)[CHOOSE i \in free : \A j \in free : i <= j]}

Retired(inn) ==
    {inn.batters[i].name : i \in {j \in DOMAIN inn.batters :
                                    inn.batters[j].dismissal = "retired hurt"}}

BatterPairs(f, inn) ==
    LET c == inn.at_crease
        incoming == NextIn(inn) \cup (IF f = "strike" THEN Retired(inn) ELSE {})
        base == IF Len(c) >= 2 THEN {<<c[1], c[2]>>}
                ELSE IF Len(c) = 1 THEN {<<x, c[1]>> : x \in incoming}
                ELSE {<<Players(inn.batting_team)[1], Players(inn.batting_team)[2]>>}
    IN  CASE f = "strike" -> base \cup {<<p[2], p[1]>> : p \in base}
          [] f = "lookup" ->
                base \cup {<<Stranger, p[2]>> : p \in base}
                     \cup {<<p[1], Stranger>> : p \in base}
          [] OTHER -> base

\* changes of bowler inside an over so far
Changes(ov) ==
    Cardinality({i \in 1..(Len(ov.balls) - 1) :
                    ov.balls[i].bowler.name # ov.balls[i + 1].bowler.name})

BowlerNames(f, inn) ==
    LET team == Players(inn.fielding_team)
        ov == CurOver(inn)
    IN  CASE f = "spell" -> {team[2], team[3]}
          [] f = "maiden" ->
                IF ov.balls = <<>> THEN {team[2]}
                ELSE IF Changes(ov) < MaidenChanges THEN {team[2], team[3]}
                ELSE {Last(ov.balls).bowler.name}
          [] f = "lookup" -> {team[2], Stranger}
          [] f = "rotate" -> {team[2], team[3]}
          [] OTHER -> {team[2]}

\* the fielders a wicket entry names: the first players of the fielding
\* list or, in a "lookup" record, one player of any provenance
FielderEntries(f, inn, n) ==
    IF f = "lookup"
    THEN {[i \in 1..n |->
            [name |-> x, substitute |-> ~Listed(inn.fielding_team, x)]] :
            x \in {Players(inn.fielding_team)[SquadSize], Substitutes[1],
                   Stranger}}
    ELSE {[i \in 1..n |->
            [name |-> Players(inn.fielding_team)[i], substitute |-> FALSE]]}

Special(ov) ==
    Cardinality({i \in DOMAIN ov.balls : ov.balls[i].batting_runs # 0})

\* the delivery records that may come next in the over being replayed
Deliveries(f, inn) ==
    UNION {
    {[batter |-> p[1], non_striker |-> p[2], bowler |-> bw,
      runs |-> o.runs, total |-> o.total, noballs |-> o.noballs,
      wides |-> o.wides, legbyes |-> o.legbyes, byes |-> o.byes,
      penalty |-> o.penalty, non_boundary |-> o.non_boundary,
      wickets |->
        IF o.wk.kind = "" THEN <<>>
        ELSE <<[kind |-> o.wk.kind,
                player_out |-> IF o.wk.who = "batter" THEN p[1] ELSE p[2],
                fielders |-> fs]>>] :
        p \in BatterPairs(f, inn), bw \in BowlerNames(f, inn),
        fs \in FielderEntries(f, inn, o.wk.fielders)} :
        o \in {x \in Outcomes(f) :
                f = "maiden" /\ x.total # 0
                    => Special(CurOver(inn)) < MaidenSpecial}}

BallsOf(inn) == SumSeq([i \in DOMAIN inn.overs |-> Len(inn.overs[i].balls)])

-----------------------------------------------------------------------------
(* RealMatch.run, as a function of the replay [mat, pc, err] and of the    *)
(* item of the source record that comes next.                              *)

\* faulty variant: the innings list of a new match is the list an earlier
\* match has filled (a mutable default shared by the instances)
FreshStale ==
    [mat |-> [innings |->
                <<RunPost(RunPre(RealInning(
                    InningData(Teams[1], FALSE, FALSE, <<>>, 0, 0), 0)))>>],
     pc |-> "created", err |-> ""]

\* a match right after RealMatch.__init__
Fresh == [mat |-> [innings |-> <<>>], pc |-> "created", err |-> ""]

\* an item of the source record: an inning record, the start of an over, a
\* delivery record, the end of the overs of an inning, the end of the record
Item(op, arg) == [op |-> op, arg |-> arg]

CanDeliverIn(st, f) ==
    /\ st.pc = "overs"
    /\ Inn(st.mat).overs # <<>>
    /\ Len(CurOver(Inn(st.mat)).balls) < MaxOverBalls(f)
    /\ BallsOf(Inn(st.mat)) < MaxBalls(f)

\* the items that may come next in a record of family f
Items(st, f) ==
    LET m == st.mat
        n == Len(m.innings)
        rested == Inn(m).overs # <<>> => CurOver(Inn(m)).balls # <<>>
    IN  (IF st.pc \in {"created", "between"} /\ n < MaxInnings(f)
         THEN {Item("inning", data) :
                    data \in InningRecords(f, Teams[1 + (n % 2)])}
         ELSE {})
        \cup
        (IF /\ st.pc = "overs"
            /\ Len(Inn(m).overs) < MaxOvers(f)
            /\ rested
            /\ BallsOf(Inn(m)) < MaxBalls(f)
            /\ Deliveries(f, RealOver(Inn(m))) # {}
         THEN {Item("over", <<>>)} ELSE {})
        \cup
        (IF CanDeliverIn(st, f)
         THEN {Item("ball", d) : d \in Deliveries(f, Inn(m))} ELSE {})
        \cup
        (IF st.pc = "overs" /\ rested THEN {Item("end_inning", <<>>)} ELSE {})
        \cup
        (IF st.pc \in {"created", "between"} THEN {Item("end", <<>>)} ELSE {})

\* RealMatch.run with RealInning.run and RealOver.run, one item further
ReplayStep(st, item) ==
    CASE item.op = "inning" ->
            Let(RealInning(item.arg, Len(st.mat.innings)), LAMBDA inn :
                [st EXCEPT !.mat.innings = Append(@, RunPre(inn)),
                           !.pc = "overs"])
      [] item.op = "over" ->
            [st EXCEPT !.mat = SetInn(@, RealOver(Inn(@)))]
      [] item.op = "ball" ->
            Let(Deliver(Inn(st.mat), item.arg), LAMBDA r :
                IF r.err = "" THEN [st EXCEPT !.mat = SetInn(@, r.inn)]
                ELSE [mat |-> SetInn(st.mat, r.inn), pc |-> "failed",
                      err |-> r.err])
      [] item.op = "end_inning" ->
            [st EXCEPT !.mat = SetInn(@, RunPost(Inn(@))), !.pc = "between"]
      [] item.op = "end" -> [st EXCEPT !.pc = "complete"]

\* run_match on a record given as the list of its items
RECURSIVE Alone(_)
Alone(log) ==
    IF log = <<>> THEN Fresh
    ELSE Let(Alone(SubSeq(log, 1, Len(log) - 1)),
             LAMBDA st : ReplayStep(st, Last(log)))

\* faulty variant: the innings list is one object that every match holds
\* (a mutable default shared by the instances)
OwnerShared(k) == 1

\* the object graph the fields of the k-th match designate: RealMatch.__init__
\* builds its own squads, players and keepers, and innings is made by
\* default_factory, so that each match has a graph of its own
Owner(k) == k

\* the second match as its replay reads it
SibState ==
    [mat |-> IF Owner(2) = 2 THEN sib.mat ELSE mat,
     pc |-> sib.pc, err |-> sib.err]

-----------------------------------------------------------------------------
(* RealMatch.run.                                                          *)

Init ==
    /\ mat = [innings |-> <<>>]
    /\ pc = "created"
    /\ feed \in Feeds
    /\ err = ""
    /\ dec = [innings |-> <<>>]
    /\ src = <<>>
    /\ sib = [mat |-> Fresh.mat, pc |-> Fresh.pc, err |-> Fresh.err,
              src |-> <<>>]

\* RealMatch.run, lines 116-118, up to the loop over the overs: the inning
\* is constructed and appended, and its replay begins
StartInning ==
    /\ pc \in {"created", "between"}
    /\ Len(mat.innings) < MaxInnings(feed)
    /\ \E data \in InningRecords(feed, Teams[1 + (Len(mat.innings) % 2)]) :
        \E inn \in {RealInning(data, Len(mat.innings))} :
            /\ mat' = [mat EXCEPT !.innings = Append(@, RunPre(inn))]
            /\ src' = Append(src, Item("inning", data))
    /\ pc' = "overs"
    /\ UNCHANGED <<feed, err, dec, sib>>

\* RealInning.run, line 205
StartOver ==
    /\ pc = "overs"
    /\ Len(Inn(mat).overs) < MaxOvers(feed)
    /\ Inn(mat).overs # <<>> => CurOver(Inn(mat)).balls # <<>>
    /\ BallsOf(Inn(mat)) < MaxBalls(feed)
    /\ Deliveries(feed, RealOver(Inn(mat))) # {}  \* no over record is empty
    /\ \E inn \in {Inn(mat)} : mat' = SetInn(mat, RealOver(inn))
    /\ src' = Append(src, Item("over", <<>>))
    /\ UNCHANGED <<pc, feed, err, dec, sib>>

CanDeliver ==
    /\ pc = "overs"
    /\ Inn(mat).overs # <<>>
    /\ Len(CurOver(Inn(mat)).balls) < MaxOverBalls(feed)
    /\ BallsOf(Inn(mat)) < MaxBalls(feed)

\* RealOver.run, lines 93-95: a delivery that is resolved
Delivery ==
    /\ CanDeliver
    /\ \E inn \in {Inn(mat)} : \E d \in Deliveries(feed, inn) :
        \E r \in {Deliver(inn, d)} :
            /\ r.err = ""
            /\ mat' = SetInn(mat, r.inn)
            /\ src' = Append(src, Item("ball", d))
    /\ UNCHANGED <<pc, feed, err, dec, sib>>

\* a delivery whose resolution raises: the exception leaves RealMatch.run
DeliveryFails ==
    /\ CanDeliver
    /\ \E inn \in {Inn(mat)} : \E d \in Deliveries(feed, inn) :
        \E r \in {Deliver(inn, d)} :
            /\ r.err # ""
            /\ mat' = SetInn(mat, r.inn)
            /\ err' = r.err
            /\ src' = Append(src, Item("ball", d))
    /\ pc' = "failed"
    /\ UNCHANGED <<feed, dec, sib>>

\* RealInning.run, lines 208-216, and the return to RealMatch.run
EndInning ==
    /\ pc = "overs"
    /\ Inn(mat).overs # <<>> => CurOver(Inn(mat)).balls # <<>>
    /\ \E inn \in {Inn(mat)} : mat' = SetInn(mat, RunPost(inn))
    /\ pc' = "between"
    /\ src' = Append(src, Item("end_inning", <<>>))
    /\ UNCHANGED <<feed, err, dec, sib>>

\* RealMatch.run returns
EndMatch ==
    /\ pc \in {"created", "between"}
    /\ pc' = "complete"
    /\ src' = Append(src, Item("end", <<>>))
    /\ UNCHANGED <<mat, feed, err, dec, sib>>

\* decode_match(encode_match(mat)) on the match that was replayed
RoundTrip ==
    /\ pc = "complete"
    /\ dec' = DecodeMatch(EncodeMatch(mat))
    /\ pc' = "decoded"
    /\ UNCHANGED <<mat, feed, err, src, sib>>

\* one step of RealMatch.run on the second match of a "pair": the step
\* reads and writes the graph the match designates
SibStep(op, fails) ==
    /\ feed = "pair"
    /\ \E st \in {SibState} : \E item \in Items(st, feed) :
        \E n \in {ReplayStep(st, item)} :
            /\ item.op = op
            /\ (n.err # "") = fails
            /\ IF Owner(2) = 2
               THEN /\ sib' = [mat |-> n.mat, pc |-> n.pc, err |-> n.err,
                               src |-> Append(sib.src, item)]
                    /\ mat' = mat
               ELSE /\ sib' = [sib EXCEPT !.pc = n.pc, !.err = n.err,
                                          !.src = Append(@, item)]
                    /\ mat' = n.mat
    /\ UNCHANGED <<pc, feed, err, dec, src>>

SibStartInning ==
    /\ sib.pc \in {"created", "between"}
    /\ SibStep("inning", FALSE)

SibStartOver ==
    /\ sib.pc = "overs"
    /\ SibStep("over", FALSE)

SibDelivery ==
    /\ sib.pc = "overs"
    /\ SibStep("ball", FALSE)

SibDeliveryFails ==
    /\ sib.pc = "overs"
    /\ SibStep("ball", TRUE)

SibEndInning ==
    /\ sib.pc = "overs"
    /\ SibStep("end_inning", FALSE)

SibEndMatch ==
    /\ sib.pc \in {"created", "between"}
    /\ SibStep("end", FALSE)

Next ==
    \/ StartInning
    \/ StartOver
    \/ Delivery
    \/ DeliveryFails
    \/ EndInning
    \/ EndMatch
    \/ RoundTrip
    \/ SibStartInning
    \/ SibStartOver
    \/ SibDelivery
    \/ SibDeliveryFails
    \/ SibEndInning
    \/ SibEndMatch

Spec == Init /\ [][Next]_vars

\* the steps of RealMatch.run on the first match
Replay ==
    \/ StartInning
    \/ StartOver
    \/ Delivery
    \/ DeliveryFails
    \/ EndInning
    \/ EndMatch

\* the records the ending of run() is followed on: several innings, several
\* overs, bowlers taking turns, a delivery that raises, a second match
LiveFeeds == {"match", "spell", "strike", "lookup", "pair", "rotate"}

LiveInit == Init /\ feed \in LiveFeeds

\* run() is a sequential loop: while it has a next step, it takes it
LiveSpec == LiveInit /\ [][Next]_vars /\ WF_vars(Replay)

-----------------------------------------------------------------------------
(* Scorecards (Inning.bat_card, Inning.bowl_card).  A card is its rows, one *)
(* per accumulator, and its totals row <<score, overs, extras>>; the overs *)
(* cell is <<whole overs, balls>>.  The rate columns are left out: they    *)
(* are computed from the columns kept.                                     *)

\* Inning.bat_card, lines 89-98: the totals row
BatCardTotal(inn) ==
    IF inn.overs = <<>>
    THEN <<"0 - 0", <<0, 0>>, "Extras: 0">>
    ELSE LET ov == Last(inn.overs)
             n == OverAbs(ov)
             bat == SumSeq([j \in DOMAIN inn.batters |-> inn.batters[j].runs])
         IN  <<IF inn.score[2] = 10 THEN ToString(inn.score[1]) ELSE ScoreStr(inn),
               IF n % 6 # 0 THEN <<ov.index, n>>
               ELSE <<ov.index + (IF n = 6 THEN 1 ELSE 0), 0>>,
               "Extras: " \o ToString(inn.score[1] - bat)>>

\* Inning.bat_card
BatCard(inn) ==
    [rows |-> [j \in DOMAIN inn.batters |->
                <<inn.batters[j].name, inn.batters[j].dismissal,
                  inn.batters[j].runs, inn.batters[j].balls,
                  inn.batters[j].fours, inn.batters[j].sixes>>],
     total |-> BatCardTotal(inn)]

\* Inning.bowl_card
BowlCard(inn) ==
    [rows |-> [j \in DOMAIN inn.bowlers |->
                <<inn.bowlers[j].name, inn.bowlers[j].balls,
                  inn.bowlers[j].maidens, inn.bowlers[j].runs,
                  inn.bowlers[j].wickets, inn.bowlers[j].extras>>],
     total |-> BatCardTotal(inn)]

\* Batter._score / Bowler._score; the overs of a bowler (whole overs plus a
\* tenth per ball) are kept in tenths
RoleScore(attr, a) ==
    IF attr = "batters"
    THEN <<a.runs, IF a.dismissal # "not out" THEN -1 ELSE 0, -a.balls>>
    ELSE <<a.wickets, -a.runs, 10 * (a.balls \div 6) + (a.balls % 6)>>

\* Role.__lt__
RoleLt(attr, a, b) ==
    LET x == RoleScore(attr, a)
        y == RoleScore(attr, b)
    IN  IF a.balls # 0 /\ b.balls # 0
        THEN \/ x[1] < y[1]
             \/ x[1] = y[1] /\ x[2] < y[2]
             \/ x[1] = y[1] /\ x[2] = y[2] /\ x[3] < y[3]
        ELSE a.balls < b.balls

\* where sorted(..., reverse=True) puts one more element: before the first
\* one that is less than it, so that equal elements keep their order
RECURSIVE InsertRole(_, _, _)
InsertRole(attr, r, x) ==
    IF r = <<>> THEN <<x>>
    ELSE IF RoleLt(attr, r[1], x) THEN <<x>> \o r
    ELSE <<r[1]>> \o InsertRole(attr, Tail(r), x)

\* sorted(getattr(self, attr), reverse=True)
RECURSIVE SortedReverse(_, _)
SortedReverse(attr, s) ==
    IF s = <<>> THEN <<>>
    ELSE InsertRole(attr, SortedReverse(attr, SubSeq(s, 1, Len(s) - 1)), Last(s))

\* Batter.score / Bowler.score
RoleScoreStr(attr, a) ==
    IF attr = "batters"
    THEN ToString(a.runs) \o (IF a.dismissal # "not out" THEN "" ELSE "*")
            \o " (" \o ToString(a.balls) \o ")"
    ELSE ToString(a.wickets) \o "-" \o ToString(a.runs) \o " ("
            \o ToString(a.balls \div 6)
            \o (IF a.balls % 6 # 0 THEN "." \o ToString(a.balls % 6) ELSE "")
            \o ")"

\* Inning.best_scores: the rows <<name, score>> of the n best
BestScores(inn, attr, n) ==
    LET best == SortedReverse(attr, inn[attr])
    IN  [j \in 1..(IF n < Len(best) THEN n ELSE Len(best)) |->
            <<best[j].name, RoleScoreStr(attr, best[j])>>]

-----------------------------------------------------------------------------
(* Vocabulary of the properties.                                           *)

RECURSIVE Flatten(_)
Flatten(ss) == IF ss = <<>> THEN <<>> ELSE ss[1] \o Flatten(Tail(ss))

\* the deliveries of an inning, in order
AllBalls(inn) == Flatten([j \in DOMAIN inn.overs |-> inn.overs[j].balls])

\* the last inning of the list, whatever the replay is working on
LastInn(m) == m.innings[Len(m.innings)]

\* the replay of inning i has completed
Completed(i) ==
    i < Len(mat.innings) \/ pc \in {"between", "complete", "decoded"}

\* the score took the delivery in: the Ball records the score right after
Applied(b) == b.score # ""

\* names of the bowlers of the deliveries of an over
BowledBy(ov) == {ov.balls[k].bowler.name : k \in DOMAIN ov.balls}

\* runs charged to the bowler over an over
Charged(ov) == SumSeq([k \in DOMAIN ov.balls |-> ov.balls[k].bowling_runs])

\* this step resolved one more delivery of the inning being replayed
DeliveryStep ==
    /\ pc = "overs" /\ pc' = "overs"
    /\ Len(mat'.innings) = Len(mat.innings)
    /\ Len(AllBalls(LastInn(mat'))) = Len(AllBalls(LastInn(mat))) + 1

-----------------------------------------------------------------------------
(* Properties.                                                             *)

\* C1: at every point of the replay of an inning the runs of its score are
\* the penalty runs awarded before it plus the total runs (batting_runs) of
\* the deliveries applied so far; once RealInning.run has completed, the
\* penalty runs awarded after it are added to that.
C1_RunsAreSumOfBalls ==
    \A i \in DOMAIN mat.innings :
        LET inn == mat.innings[i]
            balls == AllBalls(inn)
            sum == SumSeq([k \in DOMAIN balls |->
                    IF Applied(balls[k]) THEN balls[k].batting_runs ELSE 0])
        IN  inn.score[1] =
                inn.data.pre + sum + (IF Completed(i) THEN inn.data.post ELSE 0)

C1_Witness ==
    \E i \in DOMAIN mat.innings :
        /\ Completed(i)
        /\ mat.innings[i].data.post > 0
        /\ \E k \in DOMAIN AllBalls(mat.innings[i]) :
                AllBalls(mat.innings[i])[k].batting_runs > 0

\* C2: while no delivery has failed, the wickets of the score of an inning
\* are the number of dismissal entries of its deliveries whose kind is
\* neither "retired hurt" nor "retired not out".
C2_WicketsAreDismissals ==
    err = "" =>
        \A i \in DOMAIN mat.innings :
            LET balls == AllBalls(mat.innings[i])
            IN  mat.innings[i].score[2] =
                    SumSeq([k \in DOMAIN balls |->
                        Cardinality({n \in DOMAIN balls[k].dismissals :
                            balls[k].dismissals[n].mode \notin
                                {"retired hurt", "retired not out"}})])

C2_Witness ==
    /\ err = ""
    /\ \E i \in DOMAIN mat.innings :
        LET balls == AllBalls(mat.innings[i])
        IN  /\ mat.innings[i].score[2] > 0
            /\ \E k \in DOMAIN balls : \E n \in DOMAIN balls[k].dismissals :
                    balls[k].dismissals[n].mode = "retired hurt"

\* what the figures of the players of a delivery are before and after it:
\* those of the inning's accumulators, zero for a player not yet seen
FiguresOf(accs, name, blank) ==
    IF IndexOfName(accs, name) = 0 THEN blank
    ELSE accs[IndexOfName(accs, name)]

\* C3: when a delivery carries a dismissal whose kind is outside the
\* vocabulary, resolving it fails and the delivery is rejected whole: the
\* striker's runs and balls, the bowler's figures, the score of the inning
\* and the partnership matrix are after the failure what they were before
\* the delivery.
C3_UnseenKindRejectsDelivery ==
    [][(/\ pc = "overs" /\ pc' = "failed"
        /\ \E n \in DOMAIN CurBall(LastInn(mat')).dismissals :
                CurBall(LastInn(mat')).dismissals[n].mode = UNSEEN_MODE)
       => LET before == LastInn(mat)
              after == LastInn(mat')
              b == CurBall(after)
              bat(inn) == FiguresOf(inn.batters, b.batter.name,
                                    NewBatter(b.batter.name, 0, 0))
              bowl(inn) == FiguresOf(inn.bowlers, b.bowler.name,
                                     NewBowler(b.bowler.name))
          IN  /\ err' = "ValueError"
              /\ bat(after).runs = bat(before).runs
              /\ bat(after).balls = bat(before).balls
              /\ <<bowl(after).balls, bowl(after).runs, bowl(after).wickets,
                   bowl(after).maidens, bowl(after).extras>>
                 = <<bowl(before).balls, bowl(before).runs, bowl(before).wickets,
                     bowl(before).maidens, bowl(before).extras>>
              /\ after.score = before.score
              /\ after.pship = before.pship]_vars

\* C4: the replay of an inning, whether it completes or ends in an error,
\* leaves every earlier inning of the list of the match as it was.
C4_EarlierInningsUnchanged ==
    [][\A i \in DOMAIN mat.innings :
            i < Len(mat'.innings) => mat'.innings[i] = mat.innings[i]]_vars

C4_Witness ==
    /\ Len(mat.innings) = 2
    /\ pc = "failed"
    /\ AllBalls(mat.innings[1]) # <<>>
    /\ mat.innings[1].score[1] > 0

\* the figures a Ball shows for its batter, non-striker and bowler
Stored(inn, b) ==
    <<Deref(inn.batters, b.batter), Deref(inn.batters, b.non_striker),
      Deref(inn.bowlers, b.bowler)>>

\* C5: the batter, non-striker and bowler figures stored on a resolved Ball
\* never change again, whatever later deliveries do to the accumulators of
\* the same players.
C5_StoredFiguresFrozen ==
    [][\A i \in DOMAIN mat.innings :
        \A k \in DOMAIN AllBalls(mat.innings[i]) :
            Stored(mat'.innings[i], AllBalls(mat'.innings[i])[k])
                = Stored(mat.innings[i], AllBalls(mat.innings[i])[k])]_vars

C5_Witness ==
    \E i \in DOMAIN mat.innings :
        LET inn == mat.innings[i]
            b == AllBalls(inn)[1]
        IN  /\ Len(AllBalls(inn)) >= 2
            /\ err = ""
            /\ ~b.batter.live /\ ~b.bowler.live
            /\ b.batter.val.runs
                    < inn.batters[IndexOfName(inn.batters, b.batter.name)].runs
            /\ b.bowler.val.balls
                    < inn.bowlers[IndexOfName(inn.bowlers, b.bowler.name)].balls

\* the overs of the match, of every inning
AllOvers == Flatten([i \in DOMAIN mat.innings |-> mat.innings[i].overs])

\* C6, for an over of six legal deliveries: if exactly one bowler bowled in
\* it and the runs charged to the bowler (bowling_runs: the total less
\* leg-byes, byes and penalty runs) add up to zero over all its deliveries,
\* Over.maiden is true.
C6_NoChargedRunsIsMaiden ==
    \A j \in DOMAIN AllOvers :
        LET ov == AllOvers[j]
        IN  (/\ err = ""
             /\ OverAbs(ov) = 6
             /\ Cardinality(BowledBy(ov)) = 1
             /\ Charged(ov) = 0) => Maiden(ov)

\* C7: whenever Over.maiden is true, one bowler bowled the over and the
\* runs charged to that bowler in it, wides and no-balls included, are zero.
C7_MaidenHasNoChargedRuns ==
    \A j \in DOMAIN AllOvers :
        LET ov == AllOvers[j]
        IN  Maiden(ov) => Cardinality(BowledBy(ov)) = 1 /\ Charged(ov) = 0

\* the maiden counts of the bowlers of an inning, by name
Maidens(inn) ==
    [n \in {inn.bowlers[k].name : k \in DOMAIN inn.bowlers} |->
        inn.bowlers[IndexOfName(inn.bowlers, n)].maidens]

\* C8: an over in which two or more bowlers have bowled is never a maiden:
\* from the first delivery of the second bowler on, Over.maiden is false and
\* the deliveries of the over raise the maiden count of no bowler.
C8_TwoBowlersNeverMaiden ==
    [][/\ \A i \in DOMAIN mat'.innings : \A j \in DOMAIN mat'.innings[i].overs :
            Cardinality(BowledBy(mat'.innings[i].overs[j])) >= 2
                => ~Maiden(mat'.innings[i].overs[j])
       /\ (DeliveryStep /\ Cardinality(BowledBy(CurOver(LastInn(mat')))) >= 2)
            => \A n \in DOMAIN Maidens(LastInn(mat)) :
                    Maidens(LastInn(mat'))[n] = Maidens(LastInn(mat))[n]]_vars

C8_Witness ==
    \E j \in DOMAIN AllOvers :
        /\ Cardinality(BowledBy(AllOvers[j])) = 2
        /\ OverAbs(AllOvers[j]) = 6
        /\ \A k \in DOMAIN AllOvers[j].balls : AllOvers[j].balls[k].batting_runs = 0

\* bowler a has bowled the 1st, 3rd and 5th overs of the inning and another
\* bowler the 2nd and 4th, and the 5th over is the last so far
Alternating(inn, a) ==
    /\ Len(inn.overs) = 5
    /\ \A j \in {1, 3, 5} : BowledBy(inn.overs[j]) = {a}
    /\ \E o \in BowledBy(inn.overs[2]) :
            o # a /\ BowledBy(inn.overs[2]) = {o} /\ BowledBy(inn.overs[4]) = {o}

SpellsOf(inn, a) == inn.bowlers[IndexOfName(inn.bowlers, a)].spells

\* C9 as stated: a bowler who bowls the 1st, 3rd and 5th overs of an
\* inning, another bowler bowling the 2nd and 4th, has three spells after
\* the 5th over.
C9_ThreeSpells ==
    \A i \in DOMAIN mat.innings :
        \A a \in BowledBy(Last(<<[balls |-> <<>>]>> \o mat.innings[i].overs)) :
            Alternating(mat.innings[i], a) => Len(SpellsOf(mat.innings[i], a)) = 3

\* C9 amended: such a bowler has one spell after the 5th over: the spell
\* opened in the 1st over is carried on in the 3rd and the 5th, and its
\* figures are those of the three overs.
C9_OneSpell ==
    \A i \in DOMAIN mat.innings :
        \A a \in BowledBy(Last(<<[balls |-> <<>>]>> \o mat.innings[i].overs)) :
            Alternating(mat.innings[i], a)
                => /\ Len(SpellsOf(mat.innings[i], a)) = 1
                   /\ SpellsOf(mat.innings[i], a)[1][1]
                        = SumSeq([j \in 1..3 |->
                                    OverAbs(mat.innings[i].overs[2 * j - 1])])

C9_Witness ==
    \E i \in DOMAIN mat.innings :
        \E a \in BowledBy(Last(<<[balls |-> <<>>]>> \o mat.innings[i].overs)) :
            Alternating(mat.innings[i], a)

\* the last delivery carries one dismissal, a retirement, and was resolved
RetiredOnLastBall(inn) ==
    /\ inn.overs # <<>> /\ CurOver(inn).balls # <<>>
    /\ Len(CurBall(inn).dismissals) = 1
    /\ CurBall(inn).dismissals[1].mode \in {"retired hurt", "retired not out"}

\* C10: a delivery whose dismissal is a retirement leaves the wickets of the
\* score as they were and adds no fall-of-wickets entry, and it ends the
\* partnership: one partnership record is added, the partnership matrix is
\* all zero and the retiring batter is no longer at the crease.
C10_RetirementClosesPartnership ==
    [][(DeliveryStep /\ RetiredOnLastBall(LastInn(mat')))
        => LET before == LastInn(mat)
               after == LastInn(mat')
           IN  /\ after.score[2] = before.score[2]
               /\ after.fow = before.fow
               /\ Len(after.pships) = Len(before.pships) + 1
               /\ after.pship = <<<<0, 0>>, <<0, 0>>, <<0, 0>>>>
               /\ ~In(CurBall(after).dismissals[1].batter, after.at_crease)]_vars

C10_Witness ==
    /\ mat.innings # <<>>
    /\ err = ""
    /\ RetiredOnLastBall(LastInn(mat))
    /\ CurBall(LastInn(mat)).dismissals[1].mode = "retired not out"
    /\ LastInn(mat).score[2] > 0
    /\ LastInn(mat).pships # <<>>

-----------------------------------------------------------------------------

\* how many times a name stands in a list of names
Times(names, n) == Cardinality({j \in DOMAIN names : names[j] = n})

\* the batters a delivery record names who have retired hurt in the inning
Resuming(inn, d) ==
    {n \in {d.batter, d.non_striker} :
        /\ IndexOfName(inn.batters, n) # 0
        /\ inn.batters[IndexOfName(inn.batters, n)].dismissal = "retired hurt"}

\* C11: when a delivery names, as batter or non-striker, a batter of the
\* inning whose dismissal is 'retired hurt', then once the delivery is
\* constructed that batter is 'not out' again and at the crease exactly
\* once, has still one accumulator only, and has kept their runs and balls.
C11_RetiredBatterResumes ==
    CanDeliver =>
        \A d \in Deliveries(feed, Inn(mat)) : \A n \in Resuming(Inn(mat), d) :
            LET before == Inn(mat)
                after == BallInit(before, d)
                k == IndexOfName(before.batters, n)
            IN  /\ after.batters[k].dismissal = "not out"
                /\ Times(after.at_crease, n) = 1
                /\ Times([j \in DOMAIN after.batters |-> after.batters[j].name], n) = 1
                /\ after.batters[k].runs = before.batters[k].runs
                /\ after.batters[k].balls = before.batters[k].balls

\* a batter retired on one delivery, with runs to their name, and a later
\* delivery of the inning was resolved with them back at the crease
C11_Witness ==
    /\ mat.innings # <<>>
    /\ \E j, k \in DOMAIN AllBalls(LastInn(mat)) :
        LET bs == AllBalls(LastInn(mat))
        IN  /\ j < k
            /\ bs[j].dismissals # <<>>
            /\ bs[j].dismissals[1].mode \in Range(RETIRED_HURT)
            /\ bs[j].dismissals[1].batter \in {bs[k].batter.name, bs[k].non_striker.name}
            /\ Applied(bs[k])
            /\ In(bs[j].dismissals[1].batter, LastInn(mat).at_crease)
            /\ FiguresOf(LastInn(mat).batters, bs[j].dismissals[1].batter,
                         NewBatter("", 0, 0)).runs > 0

-----------------------------------------------------------------------------

\* C12: whenever the boundary flag of a Ball is true, the runs off the bat
\* on that delivery are exactly 4 or exactly 6 and the record does not carry
\* the non-boundary flag.
C12_BoundaryIsFourOrSixOffBat ==
    \A i \in DOMAIN mat.innings : \A j \in DOMAIN AllBalls(mat.innings[i]) :
        LET b == AllBalls(mat.innings[i])[j]
        IN  b.boundary => b.runs \in {4, 6} /\ ~b.data.non_boundary

\* the figures of the striker of the delivery just resolved, in an inning
StrikerIn(inn, b) ==
    FiguresOf(inn.batters, b.batter.name, NewBatter(b.batter.name, 0, 0))

\* C13: a delivery with 4 runs off the bat whose record carries the
\* non-boundary flag has boundary false and leaves the striker's fours as
\* they were; with 6 off the bat it leaves the sixes as they were.
C13_AllRunIsNoBoundary ==
    [][DeliveryStep =>
        LET before == LastInn(mat)
            after == LastInn(mat')
            b == CurBall(LastInn(mat'))
        IN  (b.data.non_boundary /\ b.runs \in {4, 6})
                => /\ ~b.boundary
                   /\ b.runs = 4 =>
                        StrikerIn(after, b).fours = StrikerIn(before, b).fours
                   /\ b.runs = 6 =>
                        StrikerIn(after, b).sixes = StrikerIn(before, b).sixes]_vars

\* a striker with a four to their name has then run four, and the delivery
\* is resolved
C13_Witness ==
    /\ mat.innings # <<>>
    /\ LastInn(mat).overs # <<>> /\ CurOver(LastInn(mat)).balls # <<>>
    /\ LET b == CurBall(LastInn(mat))
       IN  /\ Applied(b) /\ err = ""
           /\ b.data.non_boundary /\ b.runs = 4
           /\ StrikerIn(LastInn(mat), b).fours = 1
           /\ StrikerIn(LastInn(mat), b).runs = 8

\* C14: a delivery with w >= 1 wide runs and no dismissal or penalty runs
\* has the outcome string '(w-1)wd', adds its total runs to the score of the
\* inning, nothing to the runs or balls of the striker, and nothing to the
\* legal balls of the bowler or of the over.
C14_WideIsNoBall ==
    [][DeliveryStep =>
        LET before == LastInn(mat)
            after == LastInn(mat')
            b == CurBall(LastInn(mat'))
            bowl(inn) == FiguresOf(inn.bowlers, b.bowler.name,
                                   NewBowler(b.bowler.name))
        IN  (b.wides >= 1 /\ b.dismissals = <<>> /\ b.penalty = 0)
                => /\ b.value = ToString(b.wides - 1) \o "wd"
                   /\ after.score[1] = before.score[1] + b.batting_runs
                   /\ StrikerIn(after, b).runs = StrikerIn(before, b).runs
                   /\ StrikerIn(after, b).balls = StrikerIn(before, b).balls
                   /\ bowl(after).balls = bowl(before).balls
                   /\ OverAbs(CurOver(after)) = OverAbs(CurOver(before))]_vars

\* the scenario of the wide of five: '4wd', five runs on the score, after a
\* delivery the striker faced
C14_Witness ==
    /\ mat.innings # <<>>
    /\ LastInn(mat).overs # <<>> /\ CurOver(LastInn(mat)).balls # <<>>
    /\ LET b == CurBall(LastInn(mat))
       IN  /\ Applied(b) /\ err = ""
           /\ b.wides = 5 /\ b.value = "4wd"
           /\ LastInn(mat).score[1] = 6
           /\ StrikerIn(LastInn(mat), b).balls = 1

-----------------------------------------------------------------------------

\* the replay of inning i has completed and its record had no overs
NoOvers(i) == Completed(i) /\ mat.innings[i].overs = <<>>

LastChar(s) == IF Len(s) = 0 THEN "" ELSE SubSeq(s, Len(s), Len(s))

\* C20: for an inning whose record carries the declared marker the score
\* string after the replay is '<runs>-<wickets>d'; for an inning whose
\* record does not carry it the score string never ends in 'd'.
C20_DeclaredScoreEndsInD ==
    \A i \in DOMAIN mat.innings :
        LET inn == mat.innings[i]
        IN  /\ (Completed(i) /\ inn.data.declared)
                => ScoreStr(inn) = ToString(inn.score[1]) \o "-"
                                    \o ToString(inn.score[2]) \o "d"
            /\ ~inn.data.declared
                => /\ LastChar(ScoreStr(inn)) # "d"
                   /\ \A j \in DOMAIN AllBalls(inn) :
                        LastChar(AllBalls(inn)[j].score) # "d"

\* a declared inning has completed at 5 for 1
C20_Witness ==
    \E i \in DOMAIN mat.innings :
        /\ Completed(i) /\ mat.innings[i].data.declared
        /\ ScoreStr(mat.innings[i]) = "5-1d"

-----------------------------------------------------------------------------

\* C15: decode_match(encode_match(m)) on a replayed match m restores
\* innings whose score and whose batting and bowling scorecards are those
\* of the innings of m.
C15_RoundTripKeepsScorecards ==
    pc = "decoded" =>
        /\ Len(dec.innings) = Len(mat.innings)
        /\ \A i \in DOMAIN mat.innings :
            /\ ScoreStr(dec.innings[i]) = ScoreStr(mat.innings[i])
            /\ BatCard(dec.innings[i]) = BatCard(mat.innings[i])
            /\ BowlCard(dec.innings[i]) = BowlCard(mat.innings[i])

-----------------------------------------------------------------------------
\* the names a delivery record may carry
AllNames ==
    Range(Players(Teams[1])) \cup Range(Players(Teams[2]))
        \cup Range(Substitutes) \cup {Stranger}

\* the exceptions a lookup of a name raises
LookupErrors == {"StopIteration"} \cup {NotInList(n) : n \in AllNames}

\* the accumulators of that name in a collection
Named(accs, name) == {k \in DOMAIN accs : accs[k].name = name}

\* C18: referencing a batter, bowler or fielder name that has no
\* accumulator yet in the inning never ends the replay in an error: the
\* name gets one accumulator in the inning's collection, which the
\* delivery then refers to.
C18_UnseenNameIsCreated ==
    /\ err \notin LookupErrors
    /\ \A i \in DOMAIN mat.innings :
        LET inn == mat.innings[i]
            balls == AllBalls(inn)
        IN  \A k \in DOMAIN balls :
                /\ Cardinality(Named(inn.batters, balls[k].batter.name)) = 1
                /\ Cardinality(Named(inn.batters, balls[k].non_striker.name)) = 1
                /\ Cardinality(Named(inn.bowlers, balls[k].bowler.name)) = 1
                /\ pc # "failed" =>
                    \A j \in DOMAIN balls[k].dismissals :
                        \A f \in DOMAIN balls[k].dismissals[j].fielders :
                            Cardinality(Named(inn.fielders,
                                balls[k].dismissals[j].fielders[f].name)) = 1

-----------------------------------------------------------------------------
\* the first and the second match as replays; the round trip is not part
\* of the replay
Me ==
    [mat |-> mat, pc |-> IF pc = "decoded" THEN "complete" ELSE pc,
     err |-> err]

Sibling == [mat |-> sib.mat, pc |-> sib.pc, err |-> sib.err]

\* RealMatch.run has returned or raised
Ended(st) == st.pc \in {"complete", "failed"}

\* two source records are the same, item by item
SameSource(a, b) ==
    /\ Len(a) = Len(b)
    /\ \A i \in DOMAIN a :
        /\ a[i].op = b[i].op
        /\ a[i].op \in {"inning", "ball"} => a[i].arg = b[i].arg

-----------------------------------------------------------------------------
-----------------------------------------------------------------------------
\* the dismissals of a delivery whose kind is one of the given kinds
OfKinds(b, kinds) ==
    Cardinality({i \in DOMAIN b.dismissals : b.dismissals[i].mode \in kinds})

\* C21: the bowling_wickets of a Ball is the number of its dismissals of
\* kind bowled, lbw, caught, caught and bowled, stumped or hit wicket, and
\* the wickets of a bowler are the sum of that number over the deliveries
\* they bowled: run out, obstructing the field, timed out, handled the ball
\* and the retirements add nothing.
C21_BowlerWicketsAreBowlingKinds ==
    \A i \in DOMAIN mat.innings :
        LET inn == mat.innings[i]
            balls == AllBalls(inn)
            credit(b) ==
                OfKinds(b, {"bowled", "lbw", "caught", "caught and bowled",
                            "stumped", "hit wicket"})
        IN  /\ \A k \in DOMAIN balls :
                balls[k].bowling_wickets = credit(balls[k])
            /\ \A j \in DOMAIN inn.bowlers :
                inn.bowlers[j].wickets =
                    SumSeq([k \in DOMAIN balls |->
                        IF balls[k].bowler.name = inn.bowlers[j].name
                            /\ Applied(balls[k])
                        THEN credit(balls[k]) ELSE 0])

\* a run out and a stumping in one over: two wickets down, one to the bowler
C21_Witness ==
    /\ feed = "modes" /\ err = ""
    /\ mat.innings # <<>>
    /\ LET inn == LastInn(mat)
       IN  /\ inn.score[2] = 2
           /\ Len(inn.bowlers) = 1 /\ inn.bowlers[1].wickets = 1
           /\ \E k \in DOMAIN AllBalls(inn) :
                OfKinds(AllBalls(inn)[k], {RUN_OUT}) = 1

-----------------------------------------------------------------------------
\* the outcome string of a delivery without its wicket marker and without
\* its penalty runs
RunValue(b) ==
    BallValue(b.batting_runs, b.no_balls, b.wides, b.leg_byes, b.byes, 0, <<>>)

PenaltySuffix(b) == IF b.penalty # 0 THEN ToString(b.penalty) \o "p" ELSE ""

\* the kind of the dismissal the outcome string shows: the first one
ShownKind(b) == b.dismissals[1].mode

\* C22 (as stated): a run out on a no-ball or wide keeps the run value and
\* appends '+W' or '/W'; any other dismissal that is not a retirement
\* renders the bare 'W' in the place of the run value; a retirement adds no
\* wicket marker.
C22_WicketMarkerAsStated ==
    \A i \in DOMAIN mat.innings :
        \A k \in DOMAIN AllBalls(mat.innings[i]) :
            LET b == AllBalls(mat.innings[i])[k]
            IN  b.dismissals # <<>> =>
                    IF ShownKind(b) = "run out" /\ (b.no_balls # 0 \/ b.wides # 0)
                    THEN b.value \in {RunValue(b) \o "+W" \o PenaltySuffix(b),
                                      RunValue(b) \o "/W" \o PenaltySuffix(b)}
                    ELSE IF ShownKind(b) \notin {"retired hurt", "retired not out"}
                    THEN b.value = "W" \o PenaltySuffix(b)
                    ELSE b.value = RunValue(b) \o PenaltySuffix(b)

\* C22 (amended): a run out, on any delivery, keeps the run value and
\* appends '+W'; any other dismissal that is not a retirement appends '/W'
\* to the run value of a wide and renders the bare 'W' in the place of the
\* run value of any other delivery; a retirement adds no wicket marker.
C22_WicketMarker ==
    \A i \in DOMAIN mat.innings :
        \A k \in DOMAIN AllBalls(mat.innings[i]) :
            LET b == AllBalls(mat.innings[i])[k]
            IN  b.dismissals # <<>> =>
                    IF ShownKind(b) \in {"retired hurt", "retired not out"}
                    THEN b.value = RunValue(b) \o PenaltySuffix(b)
                    ELSE IF ShownKind(b) = "run out"
                    THEN b.value = RunValue(b) \o "+W" \o PenaltySuffix(b)
                    ELSE IF b.wides # 0
                    THEN b.value = RunValue(b) \o "/W" \o PenaltySuffix(b)
                    ELSE b.value = "W" \o PenaltySuffix(b)

\* a run out off a run that was completed, then a stumping off a wide
C22_Witness ==
    /\ feed = "modes"
    /\ mat.innings # <<>>
    /\ LET balls == AllBalls(LastInn(mat))
       IN  /\ Len(balls) = 2
           /\ balls[1].value = "1+W"
           /\ balls[2].value = "0wd/W"

-----------------------------------------------------------------------------
\* the rank of a name in the best scores of an inning, all of them listed
RankIn(inn, attr, name) ==
    LET best == BestScores(inn, attr, Len(inn[attr]))
    IN  CHOOSE j \in DOMAIN best : best[j][1] = name

\* C23: in the best bowlers of an inning, of two bowlers who have bowled,
\* with equal wickets and equal runs conceded, the one with fewer legal
\* balls ranks higher (and more wickets rank first, then fewer runs).
C23_FewerOversRankHigher ==
    \A i \in DOMAIN mat.innings :
        LET inn == mat.innings[i]
        IN  \A j, k \in DOMAIN inn.bowlers :
                LET a == inn.bowlers[j]
                    b == inn.bowlers[k]
                IN  (/\ a.balls > 0 /\ b.balls > 0
                     /\ \/ a.wickets > b.wickets
                        \/ a.wickets = b.wickets /\ a.runs < b.runs
                        \/ /\ a.wickets = b.wickets /\ a.runs = b.runs
                           /\ a.balls < b.balls)
                    => RankIn(inn, "bowlers", a.name)
                            < RankIn(inn, "bowlers", b.name)

-----------------------------------------------------------------------------
\* C24: in the best batters of an inning, any two batters are ordered by
\* more runs first, then not out before out, then fewer balls faced first,
\* whatever their number of balls faced.
C24_BattersRankedByScore ==
    \A i \in DOMAIN mat.innings :
        LET inn == mat.innings[i]
        IN  \A j, k \in DOMAIN inn.batters :
                LET a == inn.batters[j]
                    b == inn.batters[k]
                    out(x) == x.dismissal # "not out"
                IN  (\/ a.runs > b.runs
                     \/ a.runs = b.runs /\ ~out(a) /\ out(b)
                     \/ a.runs = b.runs /\ out(a) = out(b) /\ a.balls < b.balls)
                    => RankIn(inn, "batters", a.name)
                            < RankIn(inn, "batters", b.name)

-----------------------------------------------------------------------------
\* C25: on every ball, resolved or not, bowling_runs + fielding_extras is the
\* total of the delivery and bowling_extras + fielding_extras is extras, with
\* bowling_extras = no balls + wides and fielding_extras = leg byes + byes +
\* penalty.
C25_RunsAndExtrasAddUp ==
    \A i \in DOMAIN mat.innings : \A b \in Range(AllBalls(mat.innings[i])) :
        /\ b.bowling_extras = b.no_balls + b.wides
        /\ b.fielding_extras = b.leg_byes + b.byes + b.penalty
        /\ b.bowling_runs + b.fielding_extras = b.data.total
        /\ b.bowling_runs + b.fielding_extras = b.batting_runs
        /\ b.bowling_extras + b.fielding_extras = b.extras

\* a resolved inning holds a ball with extras charged to the bowler and a ball
\* with extras that are not
C25_Witness ==
    \E i \in DOMAIN mat.innings :
        \E b, c \in {x \in Range(AllBalls(mat.innings[i])) : Applied(x)} :
            /\ b.bowling_extras > 0 /\ b.bowling_runs > 0
            /\ c.fielding_extras > 0 /\ c.bowling_runs < c.batting_runs

-----------------------------------------------------------------------------
\* the inning records whose replay has completed
Replayed == {k \in DOMAIN src : src[k].op = "end_inning"}

\* C26: the innings list holds the innings whose replay has completed, and
\* no other: while the overs of an inning are being replayed, and after its
\* replay was aborted by an error, that inning is not in the list.
C26_InningAppendedWhenComplete ==
    pc \in {"overs", "failed"} => Len(mat.innings) = Cardinality(Replayed)

-----------------------------------------------------------------------------
\* the snapshot of the three players has been taken: the Ball holds copies
Resolved(b) == ~b.batter.live /\ ~b.non_striker.live /\ ~b.bowler.live

\* C27: a delivery is applied once, in the order striker, bowler, score and
\* partnership, dismissals, snapshot.  The score stored on the Ball is the
\* penalty runs awarded before the inning plus the totals of the deliveries
\* up to and including this one, with the wickets up to and including this
\* one; every wicket of a resolved delivery has its fall-of-wickets entry,
\* made with that score; the snapshots of the striker and of the bowler hold
\* the runs, balls and wickets of their deliveries up to and including this
\* one, and the snapshot of a batter the delivery dismissed holds the
\* dismissal text.
C27_StoredValuesIncludeTheDelivery ==
    \A i \in DOMAIN mat.innings :
        LET inn == mat.innings[i]
            balls == AllBalls(inn)
            one(c) == IF c THEN 1 ELSE 0
        IN  /\ \A k \in DOMAIN balls :
                LET b == balls[k]
                    bat == b.batter.val
                    bowl == b.bowler.val
                    faced(n) == balls[n].batter.name = bat.name
                    bowled(n) == balls[n].bowler.name = bowl.name
                IN  /\ Resolved(b) => Applied(b)
                    /\ Applied(b) =>
                        b.score =
                            ToString(inn.data.pre + SumSeq([n \in 1..k |->
                                        balls[n].batting_runs]))
                            \o "-"
                            \o ToString(SumSeq([n \in 1..k |-> balls[n].wickets]))
                    /\ Resolved(b) =>
                        /\ bat.runs = SumSeq([n \in 1..k |->
                                        IF faced(n) THEN balls[n].runs ELSE 0])
                        /\ bat.balls = SumSeq([n \in 1..k |->
                                one(faced(n) /\ balls[n].wides = 0)])
                        /\ bowl.runs = SumSeq([n \in 1..k |->
                                IF bowled(n) THEN balls[n].bowling_runs ELSE 0])
                        /\ bowl.balls = SumSeq([n \in 1..k |->
                                one(bowled(n) /\ balls[n].bowling_extras = 0)])
                        /\ bowl.wickets = SumSeq([n \in 1..k |->
                                IF bowled(n) THEN balls[n].bowling_wickets ELSE 0])
                        /\ \A n \in DOMAIN b.dismissals :
                            LET w == b.dismissals[n]
                            IN  /\ w.batter = bat.name
                                    => bat.dismissal # "not out"
                                /\ w.batter = b.non_striker.name
                                    => b.non_striker.val.dismissal # "not out"
                                /\ IsWicket(w.mode) =>
                                    \E e \in DOMAIN inn.fow :
                                        inn.fow[e] =
                                            <<b.score, w.batter, b.index_str>>
            /\ (\A k \in DOMAIN balls : Resolved(balls[k])) =>
                    Len(inn.fow) =
                        SumSeq([k \in DOMAIN balls |-> balls[k].wickets])

\* a single on which the non-striker is run out: the Ball and the entry of
\* the fall of wickets read 1-1, the striker's copy has the run and the
\* non-striker's copy the dismissal
C27_Witness ==
    /\ feed = "modes" /\ err = ""
    /\ Len(mat.innings) = 1
    /\ LET inn == mat.innings[1]
           balls == AllBalls(inn)
       IN  /\ Len(balls) = 1 /\ Resolved(balls[1])
           /\ balls[1].score = "1-1"
           /\ balls[1].batter.val.runs = 1
           /\ balls[1].bowler.val.runs = 1
           /\ balls[1].non_striker.val.dismissal = "run out"
           /\ Len(inn.fow) = 1 /\ inn.fow[1][1] = "1-1"

-----------------------------------------------------------------------------
\* how many items of kind op the replay has read at positions a..b
Count(op, a, b) == Cardinality({n \in a..b : src[n].op = op})

\* the position of the last item of kind op at or before position k
LastPos(op, k) ==
    LET at == {n \in 1..k : src[n].op = op}
    IN  IF at = {} THEN 0 ELSE CHOOSE n \in at : \A m \in at : m <= n

\* RealMatch.run has returned or an exception has left it
Halted == pc \in {"complete", "decoded", "failed"}

\* the innings, overs and balls of the match are the inning, over and
\* delivery records read so far, each once and in the order read
InSourceOrder ==
    /\ Len(mat.innings) = Count("inning", 1, Len(src))
    /\ \A n \in DOMAIN src :
        LET i == Count("inning", 1, n)
            j == Count("over", LastPos("inning", n), n)
            k == Count("ball", LastPos("over", n), n)
            last(op) == \A m \in (n + 1)..Len(src) : src[m].op # op
        IN  /\ src[n].op = "inning" =>
                /\ mat.innings[i].data = src[n].arg
                /\ mat.innings[i].index = i - 1
                /\ last("inning") /\ last("over")
                    => mat.innings[i].overs = <<>>
            /\ src[n].op = "over" =>
                /\ j <= Len(mat.innings[i].overs)
                /\ mat.innings[i].overs[j].index = j - 1
                /\ last("inning") /\ last("over")
                    => Len(mat.innings[i].overs) = j
                /\ last("over") /\ last("ball")
                    => mat.innings[i].overs[j].balls = <<>>
            /\ src[n].op = "ball" =>
                /\ k <= Len(mat.innings[i].overs[j].balls)
                /\ mat.innings[i].overs[j].balls[k].data = src[n].arg
                /\ mat.innings[i].overs[j].balls[k].index = k - 1
                /\ last("over") /\ last("ball")
                    => Len(mat.innings[i].overs[j].balls) = k

\* a step keeps the innings that are in the list where they are, and leaves
\* those before the last one as they are
AppendOnly ==
    /\ Len(mat'.innings) >= Len(mat.innings)
    /\ \A i \in DOMAIN mat.innings :
        /\ mat'.innings[i].data = mat.innings[i].data
        /\ mat'.innings[i].index = mat.innings[i].index
        /\ i < Len(mat.innings) => mat'.innings[i] = mat.innings[i]

\* C28: RealMatch.run ends, and it reads every inning, over and delivery of
\* the record once and in order: as long as no exception has left it, and
\* after it has returned, balls[k] of overs[j] of innings[i] is the k-th
\* delivery of the j-th over of the i-th inning record and the index of an
\* inning is its position; the innings list is only ever appended to.
C28_EndsInSourceOrder ==
    /\ [](pc # "failed" => InSourceOrder)
    /\ [][AppendOnly]_vars
    /\ <>Halted

\* the replay has returned from a record of two innings, each with an over
\* and a delivery
C28_Witness ==
    /\ pc = "complete" /\ err = ""
    /\ Len(mat.innings) = 2
    /\ \A i \in 1..2 :
        /\ mat.innings[i].index = i - 1
        /\ Len(mat.innings[i].overs) >= 1
        /\ Len(mat.innings[i].overs[1].balls) >= 1
    /\ Count("ball", 1, Len(src)) >= 2

-----------------------------------------------------------------------------
\* how many dismissals of the kinds given, in the deliveries of an inning,
\* name the fielder
NamedIn(inn, name, kinds) ==
    SumSeq([k \in DOMAIN AllBalls(inn) |->
        Cardinality({n \in DOMAIN AllBalls(inn)[k].dismissals :
            LET w == AllBalls(inn)[k].dismissals[n]
            IN  /\ w.mode \in kinds
                /\ \E m \in DOMAIN w.fielders : w.fielders[m].name = name})])

\* C29: every fielder is credited with the dismissals that name them, and
\* with no other: a catch for each catch, a stumping for each stumping and a
\* run out for each run out.
C29_NamedFieldersAreCredited ==
    \A i \in DOMAIN mat.innings :
        LET inn == mat.innings[i]
        IN  \A j \in DOMAIN inn.fielders :
                LET f == inn.fielders[j]
                IN  /\ f.catches = NamedIn(inn, f.name, {CAUGHT, CAUGHT_AND_BOWLED})
                    /\ f.stumpings = NamedIn(inn, f.name, {STUMPED})
                    /\ f.run_outs = NamedIn(inn, f.name, {RUN_OUT})

-----------------------------------------------------------------------------
\* the names of the bowlers of a sequence of deliveries, each once, in the
\* order of their first delivery
RECURSIVE FirstAppearances(_)
FirstAppearances(balls) ==
    IF balls = <<>> THEN <<>>
    ELSE LET before == FirstAppearances(SubSeq(balls, 1, Len(balls) - 1))
             name == Last(balls).bowler.name
         IN  IF In(name, before) THEN before ELSE Append(before, name)

\* C30: the bowlers list of an over holds each bowler of its deliveries
\* once, in the order of their first delivery of the over, also when a
\* bowler bowls again after another one has bowled in the over.
C30_OverBowlersOnceEach ==
    \A i \in DOMAIN mat.innings :
        \A j \in DOMAIN mat.innings[i].overs :
            LET ov == mat.innings[i].overs[j]
            IN  (\A k \in DOMAIN ov.balls : Resolved(ov.balls[k])) =>
                    [n \in DOMAIN ov.bowlers |-> ov.bowlers[n].name]
                        = FirstAppearances(ov.balls)

-----------------------------------------------------------------------------
\* the position, among the deliveries of an inning, of the last one that
\* carries a dismissal (0: none does)
LastDismissal(inn) ==
    LET at == {k \in DOMAIN AllBalls(inn) : AllBalls(inn)[k].dismissals # <<>>}
    IN  IF at = {} THEN 0 ELSE CHOOSE k \in at : \A m \in at : m <= k

\* C31: as long as no delivery has raised, the partnership matrix holds what
\* the deliveries after the last dismissal, a retirement included, have
\* added from zero: right after a dismissal its six entries are zero, the
\* combined row then has the totals and the balls that are not wides of
\* the deliveries since, and the row of each batter at the crease the runs
\* off the bat and the balls of the deliveries they faced since.
C31_PartnershipFromZero ==
    err = "" =>
        \A i \in DOMAIN mat.innings :
            LET inn == mat.innings[i]
                balls == AllBalls(inn)
                since == (LastDismissal(inn) + 1)..Len(balls)
                one(b) == IF b.wides = 0 THEN 1 ELSE 0
                sum(f) == SumSeq([k \in 1..Len(balls) |->
                                    IF k \in since THEN f[k] ELSE 0])
            IN  /\ since = {} /\ balls # <<>> =>
                    inn.pship = <<<<0, 0>>, <<0, 0>>, <<0, 0>>>>
                /\ inn.pship[3] =
                    <<sum([k \in DOMAIN balls |-> balls[k].batting_runs]),
                      sum([k \in DOMAIN balls |-> one(balls[k])])>>
                /\ \A r \in 1..2 :
                    LET mine(k) == /\ r <= Len(inn.at_crease)
                                   /\ balls[k].batter.name = inn.at_crease[r]
                    IN  inn.pship[r] =
                            <<sum([k \in DOMAIN balls |->
                                    IF mine(k) THEN balls[k].runs ELSE 0]),
                              sum([k \in DOMAIN balls |->
                                    IF mine(k) THEN one(balls[k]) ELSE 0])>>

\* a batter has retired hurt and the next delivery, with runs, has been
\* resolved: the combined row holds that delivery alone
C31_Witness ==
    /\ err = ""
    /\ \E i \in DOMAIN mat.innings :
        LET inn == mat.innings[i]
            balls == AllBalls(inn)
            n == Len(balls)
        IN  /\ n >= 2 /\ LastDismissal(inn) = n - 1
            /\ \E w \in DOMAIN balls[n - 1].dismissals :
                    In(balls[n - 1].dismissals[w].mode, RETIRED_HURT)
            /\ Resolved(balls[n]) /\ balls[n].batting_runs > 0
            /\ inn.pship[3] = <<balls[n].batting_runs, 1>>

-----------------------------------------------------------------------------
\* no two accumulators of the collection have the same name
UniqueNames(accs) ==
    \A j, k \in DOMAIN accs : accs[j].name = accs[k].name => j = k

\* what a lookup of a batter, of a bowler and of a fielder may write to
BatterSide(inn) == <<inn.batters, inn.at_crease>>
BowlerSide(inn) == inn.bowlers
FielderSide(inn) == <<inn.fielders, inn.added>>

\* C32: the lookups of an inning are keyed by name and idempotent.  In every
\* state of an inning, the lookup of a name that has its accumulator leaves
\* the collection and the accumulator as they are (but for a batter who had
\* retired hurt, whom the first lookup brings back and the second leaves as
\* they are), the lookup of a name that has none makes one and a second
\* lookup changes nothing more, and no collection of an inning holds two
\* accumulators of one name.
C32_LookupIdempotent ==
    \A i \in DOMAIN mat.innings :
        LET inn == mat.innings[i]
        IN  /\ UniqueNames(inn.batters)
            /\ UniqueNames(inn.bowlers)
            /\ UniqueNames(inn.fielders)
            /\ \A n \in Range(Players(inn.batting_team)) :
                LET k == IndexOfName(inn.batters, n)
                IN  IF k # 0 /\ inn.batters[k].dismissal # "retired hurt"
                    THEN BatterSide(GetBatter(inn, n, FALSE)) = BatterSide(inn)
                    ELSE LET once == GetBatter(inn, n, FALSE)
                         IN  /\ BatterSide(GetBatter(once, n, FALSE))
                                    = BatterSide(once)
                             /\ k # 0 =>
                                    once.batters = [inn.batters EXCEPT
                                        ![k].dismissal = "not out"]
            /\ \A n \in Range(Players(inn.fielding_team)) :
                IF IndexOfName(inn.bowlers, n) # 0
                THEN BowlerSide(GetBowler(inn, n)) = BowlerSide(inn)
                ELSE LET once == GetBowler(inn, n)
                     IN  BowlerSide(GetBowler(once, n)) = BowlerSide(once)
            /\ \A n \in Range(Players(inn.fielding_team)) \cup Range(Substitutes) :
                \A s \in BOOLEAN :
                    IF IndexOfName(inn.fielders, n) # 0
                    THEN FielderSide(GetFielder(inn, n, s)) = FielderSide(inn)
                    ELSE LET once == GetFielder(inn, n, s)
                         IN  \A t \in BOOLEAN :
                                FielderSide(GetFielder(once, n, t))
                                    = FielderSide(once)

\* a bowler has bowled two deliveries and a fielder made at the start of
\* the inning has been named in a dismissal: each has one accumulator
C32_Witness ==
    \E i \in DOMAIN mat.innings :
        LET inn == mat.innings[i]
            balls == AllBalls(inn)
        IN  /\ Len(balls) >= 2 /\ Resolved(balls[2])
            /\ balls[1].bowler.name = balls[2].bowler.name
            /\ balls[1].batter.name = balls[2].batter.name
            /\ Len(inn.bowlers) = 1 /\ Len(inn.batters) = 2
            /\ \E k \in DOMAIN balls : \E w \in DOMAIN balls[k].dismissals :
                    balls[k].dismissals[w].fielders # <<>>
            /\ Len(inn.fielders) = SquadSize

-----------------------------------------------------------------------------
\* C33: once an inning has been replayed, the extras figure of the totals
\* row of its batting scorecard is the sum of the extras fields of its Balls
\* plus the penalty runs awarded before and after it (every delivery record
\* of the families has a total that is its runs off the bat plus its
\* extras).
C33_CardExtrasAreBallExtras ==
    \A i \in DOMAIN mat.innings :
        LET inn == mat.innings[i]
            balls == AllBalls(inn)
        IN  Completed(i) /\ err = "" =>
                BatCardTotal(inn)[3] =
                    "Extras: " \o ToString(
                        SumSeq([k \in DOMAIN balls |-> balls[k].extras])
                            + inn.data.pre + inn.data.post)

-----------------------------------------------------------------------------
\* C34: once an inning has been replayed, the maidens of each bowler are the
\* overs of the inning, bowled by them, for which Over.maiden is true: an
\* over adds one when it is a maiden after its last delivery and nothing
\* otherwise, whatever the number of its deliveries.
C34_OneMaidenPerMaidenOver ==
    \A i \in DOMAIN mat.innings :
        LET inn == mat.innings[i]
        IN  Completed(i) /\ err = "" =>
                \A j \in DOMAIN inn.bowlers :
                    inn.bowlers[j].maidens =
                        Cardinality({o \in DOMAIN inn.overs :
                            /\ Maiden(inn.overs[o])
                            /\ inn.overs[o].bowlers[1].name = inn.bowlers[j].name})

-----------------------------------------------------------------------------
\* C35: as long as no delivery has raised, the at-crease list of an inning
\* holds at most two batters, none of them twice, and a batter of the
\* inning is in it exactly when their dismissal is 'not out'.
C35_AtCreaseAreTheNotOut ==
    err = "" =>
        \A i \in DOMAIN mat.innings :
            LET inn == mat.innings[i]
                c == inn.at_crease
            IN  /\ Len(c) <= 2
                /\ \A j, k \in DOMAIN c : c[j] = c[k] => j = k
                /\ \A j \in DOMAIN inn.batters :
                    In(inn.batters[j].name, c)
                        <=> inn.batters[j].dismissal = "not out"
                /\ \A j \in DOMAIN c : IndexOfName(inn.batters, c[j]) # 0

\* a batter is out, the next one has come in and a batter who had retired
\* hurt is back: two batters at the crease, one batter out
C35_Witness ==
    /\ err = ""
    /\ \E i \in DOMAIN mat.innings :
        LET inn == mat.innings[i]
            balls == AllBalls(inn)
        IN  /\ Len(inn.at_crease) = 2 /\ Len(inn.batters) = 3
            /\ balls # <<>> /\ Resolved(Last(balls))
            /\ \E j \in DOMAIN inn.batters :
                    inn.batters[j].dismissal \notin {"not out", "retired hurt"}
            /\ \E k \in DOMAIN balls : \E w \in DOMAIN balls[k].dismissals :
                /\ In(balls[k].dismissals[w].mode, RETIRED_HURT)
                /\ In(balls[k].dismissals[w].batter, inn.at_crease)

-----------------------------------------------------------------------------
\* the wickets a score string 'runs-wickets' shows
WicketsOf(score) == ParseInt(Split(Without(score, "d"), "-")[2])

\* C36: as long as no delivery has raised, the fall of wickets of an inning
\* has as many entries as the score has wickets, and the score of the k-th
\* entry shows k wickets at least.
C36_FallOfWicketsCountsWickets ==
    err = "" =>
        \A i \in DOMAIN mat.innings :
            LET inn == mat.innings[i]
            IN  /\ Len(inn.fow) = inn.score[2]
                /\ \A k \in DOMAIN inn.fow : WicketsOf(inn.fow[k][1]) >= k

\* two wickets have fallen, with a retirement among the deliveries
C36_Witness ==
    /\ err = ""
    /\ \E i \in DOMAIN mat.innings :
        LET inn == mat.innings[i]
            balls == AllBalls(inn)
        IN  /\ Len(inn.fow) = 2 /\ inn.score[2] = 2
            /\ WicketsOf(inn.fow[1][1]) = 1 /\ WicketsOf(inn.fow[2][1]) = 2
            /\ \E k \in DOMAIN balls : \E w \in DOMAIN balls[k].dismissals :
                    In(balls[k].dismissals[w].mode, RETIRED_HURT)

-----------------------------------------------------------------------------
\* how many deliveries of the inning the batter faced with n runs off the
\* bat and no non_boundary flag in the record
HitsOf(inn, name, n) ==
    Cardinality({k \in DOMAIN AllBalls(inn) :
        /\ Applied(AllBalls(inn)[k])
        /\ AllBalls(inn)[k].batter.name = name
        /\ AllBalls(inn)[k].data.runs = n
        /\ ~AllBalls(inn)[k].data.non_boundary})

\* C37: the fours of a batter are the deliveries they faced with four runs
\* off the bat and no non_boundary flag, and the sixes likewise with six,
\* whatever extras the delivery carries.
C37_FoursAndSixesOffTheBat ==
    \A i \in DOMAIN mat.innings :
        LET inn == mat.innings[i]
        IN  \A j \in DOMAIN inn.batters :
                /\ inn.batters[j].fours = HitsOf(inn, inn.batters[j].name, 4)
                /\ inn.batters[j].sixes = HitsOf(inn, inn.batters[j].name, 6)

-----------------------------------------------------------------------------
\* C38: a bowler who has bowled a delivery has at least one spell, and the
\* runs, wickets and maidens of every bowler are the sums of those of their
\* spells (a spell is <<balls, maidens, runs, wickets>>).
C38_TotalsAreSumsOfSpells ==
    \A i \in DOMAIN mat.innings :
        LET inn == mat.innings[i]
            balls == AllBalls(inn)
        IN  /\ \A k \in DOMAIN balls :
                inn.bowlers[IndexOfName(inn.bowlers, balls[k].bowler.name)].spells
                    # <<>>
            /\ \A j \in DOMAIN inn.bowlers :
                LET sp == inn.bowlers[j].spells
                    col(c) == SumSeq([n \in DOMAIN sp |-> sp[n][c]])
                IN  /\ inn.bowlers[j].maidens = col(2)
                    /\ inn.bowlers[j].runs = col(3)
                    /\ inn.bowlers[j].wickets = col(4)

\* a bowler with two spells, runs conceded in each and a wicket
C38_Witness ==
    \E i \in DOMAIN mat.innings : \E j \in DOMAIN mat.innings[i].bowlers :
        LET bowl == mat.innings[i].bowlers[j]
        IN  /\ Len(bowl.spells) = 2
            /\ bowl.spells[1][3] > 0 /\ bowl.spells[2][3] > 0
            /\ bowl.wickets > 0

-----------------------------------------------------------------------------
\* C39: the balls of the combined row of the partnership matrix are the
\* balls of the two batter rows together and the runs of the combined row
\* are at least the runs of the two batter rows together; as long as no
\* delivery has raised, what they exceed them by is the extras of the
\* deliveries since the last dismissal (total less runs off the bat).
C39_CombinedRowIsPairPlusExtras ==
    \A i \in DOMAIN mat.innings :
        LET inn == mat.innings[i]
            p == inn.pship
            balls == AllBalls(inn)
            from == LastDismissal(inn) + 1
        IN  /\ p[3][2] = p[1][2] + p[2][2]
            /\ p[3][1] >= p[1][1] + p[2][1]
            /\ err = "" =>
                p[3][1] - (p[1][1] + p[2][1]) =
                    SumSeq([k \in DOMAIN balls |->
                        IF k >= from
                        THEN balls[k].data.total - balls[k].data.runs
                        ELSE 0])

\* since the last dismissal the pair has scored off the bat and extras have
\* been added
C39_Witness ==
    /\ err = ""
    /\ \E i \in DOMAIN mat.innings :
        LET inn == mat.innings[i]
            p == inn.pship
        IN  /\ LastDismissal(inn) >= 1
            /\ p[1][1] + p[2][1] > 0
            /\ p[3][1] > p[1][1] + p[2][1]
            /\ p[3][2] >= 1

====
